---- MODULE Spec2Model ----
(***************************************************************************)
(* The session-driven food tracking workflow of peupajoh:                  *)
(*   usecase/main_workflow.py   MainWorkflow (streaming controller)        *)
(*   repositories/session.py    SessionRepository (app_sessions table)     *)
(*   app/api/v1/endpoints/chat.py   the SSE endpoint that forwards events  *)
(*                                                                         *)
(* A request handler is an asyncio coroutine: it runs without interleaving *)
(* up to its next suspension point (an await that really suspends, or a    *)
(* yield of an event to the transport).  Each action below is one such     *)
(* run.  SpecStore models the repository alone, called by clients that are *)
(* not serialised by one event loop, one SQL statement at a time.          *)
(***************************************************************************)
EXTENDS Integers, Sequences, FiniteSets, TLC

\* ------------------------------------------------------------------ bounds
MaxFoods == 2
MaxTokens == 2
MaxCalls == 2

\* ------------------------------------------------------------- vocabulary
SessionIds == {"s1", "s2"}
Calls == {"a", "b"}
\* the i-th food a message mentions
FoodNames == <<"bubur", "nasi", "sate", "soto">>
Names == {FoodNames[i] : i \in DOMAIN FoodNames}
Messages == {"makan bubur", "thanks"}

\* Python None and JSON null
None == "<None>"
JsonNull == "null"

\* models/session.py SessionState
INITIAL == "initial"
CLARIFYING == "clarifying"
ADVISING == "advising"
ADVISED == "advised"
Stages == {INITIAL, CLARIFYING, ADVISING, ADVISED}

\* a value of current_state that SessionState does not define
UnknownStage == "paused"

Absent == [absent |-> TRUE]

\* ----------------------------------------------------------------- helpers
RECURSIVE SelectSeq2(_, _)
SelectSeq2(s, keep) ==
    IF s = <<>> THEN <<>>
    ELSE (IF keep[1] THEN <<s[1]>> ELSE <<>>)
         \o SelectSeq2(Tail(s), Tail(keep))

\* Python dicts with string keys: sets of <<key, value>> pairs
EmptyDict == {}
DictSet(d, k, v) == {p \in d : p[1] # k} \cup {<<k, v>>}

\* lists of ExtractedFood.model_dump(), reduced to the fields the workflow
\* reads: name and needs_clarification
FoodLists ==
    UNION {{[i \in 1..n |-> [name |-> FoodNames[i], needs_clarification |-> flag[i]]]
            : flag \in [1..n -> BOOLEAN]} : n \in 0..MaxFoods}

\* --------------------------------------------------- json.dumps / json.loads
JsonBool(b) == IF b THEN "true" ELSE "false"
PyBool(t) == t = "true"
JsonOpt(v) == IF v = None THEN JsonNull ELSE v
PyOpt(v) == IF v = JsonNull THEN None ELSE v

JsonDumps(state) ==
    [current_state |-> state.current_state,
     extracted_foods |->
        [i \in DOMAIN state.extracted_foods |->
            [name |-> state.extracted_foods[i].name,
             needs_clarification |->
                JsonBool(state.extracted_foods[i].needs_clarification)]],
     pending_clarifications |-> state.pending_clarifications,
     clarification_responses |-> state.clarification_responses,
     advisor_recommendations |-> JsonOpt(state.advisor_recommendations),
     user_message |-> JsonOpt(state.user_message)]

JsonLoads(doc) ==
    [current_state |-> doc.current_state,
     extracted_foods |->
        [i \in DOMAIN doc.extracted_foods |->
            [name |-> doc.extracted_foods[i].name,
             needs_clarification |->
                PyBool(doc.extracted_foods[i].needs_clarification)]],
     pending_clarifications |-> doc.pending_clarifications,
     clarification_responses |-> doc.clarification_responses,
     advisor_recommendations |-> PyOpt(doc.advisor_recommendations),
     user_message |-> PyOpt(doc.user_message)]

\* ------------------------------------------------------------------ state
VARIABLES
    store,          \* app_sessions: session_id -> session_data (JSON) or Absent
    store0,         \* the table as the process found it at start
    pc,             \* where each request handler is suspended
    req,            \* the request a handler serves
    session_state,  \* the handler's session_state dict
    inflight,       \* results of capabilities the handler has awaited
    events,         \* events yielded by process_user_input_stream
    sse,            \* events forwarded by the chat endpoint
    hist,           \* what the handler has done so far
    ncalls,         \* number of requests started
    now             \* the database clock (func.now())

vars == <<store, store0, pc, req, session_state, inflight, events, sse, hist, ncalls, now>>

\* repositories/session.py create_initial_session: the initial dict
initial_state ==
    [current_state |-> INITIAL,
     extracted_foods |-> <<>>,
     pending_clarifications |-> <<>>,
     clarification_responses |-> EmptyDict,
     advisor_recommendations |-> None,
     user_message |-> None]


\* ------------------------------------------------------- session repository
\* session_data that is not a JSON document: the empty text, and a text
\* json.loads raises JSONDecodeError on
EmptyData == [text |-> ""]
NotJson == [text |-> "{"]
Undecodable == {EmptyData, NotJson}

\* get_session_state that lets json.loads' JSONDecodeError escape
get_session_state_raising(tbl, session_id) ==
    IF tbl[session_id] = Absent \/ tbl[session_id] = EmptyData
    THEN [found |-> FALSE, raised |-> FALSE, state |-> initial_state]
    ELSE IF tbl[session_id] = NotJson
    THEN [found |-> FALSE, raised |-> TRUE, state |-> initial_state]
    ELSE [found |-> TRUE, raised |-> FALSE, state |-> JsonLoads(tbl[session_id])]

\* get_session_state: the row's session_data parsed; None when there is
\* no row, when session_data is empty, and when json.loads raises
\* JSONDecodeError
get_session_state(tbl, session_id) ==
    IF tbl[session_id] = Absent \/ tbl[session_id] = EmptyData
    THEN [found |-> FALSE, raised |-> FALSE, state |-> initial_state]
    ELSE IF tbl[session_id] = NotJson
    THEN [found |-> FALSE, raised |-> FALSE, state |-> initial_state]
    ELSE [found |-> TRUE, raised |-> FALSE, state |-> JsonLoads(tbl[session_id])]

\* save_session_state, first statement: the query for the existing row
save_query(tbl, session_id) == tbl[session_id] # Absent

\* save_session_state, second statement: commit() flushes an UPDATE of the
\* row the query found, or an INSERT; an INSERT of a session_id (the primary
\* key) that is there by now, or an UPDATE of a row that is gone, raises, is
\* rolled back and makes save_session_state return False
save_commit(tbl, session_id, state, existing) ==
    IF existing = (tbl[session_id] # Absent)
    THEN [ok |-> TRUE, table |-> [tbl EXCEPT ![session_id] = JsonDumps(state)]]
    ELSE [ok |-> FALSE, table |-> tbl]

\* save_session_state that writes the document to every row of the table
save_session_state_everywhere(tbl, session_id, state) ==
    [other \in DOMAIN tbl |->
        IF other = session_id \/ tbl[other] # Absent THEN JsonDumps(state)
        ELSE tbl[other]]

\* save_session_state run without interruption: an upsert
save_session_state(tbl, session_id, state) ==
    save_commit(tbl, session_id, state, save_query(tbl, session_id)).table

\* create_initial_session: saves the initial dict and returns it
create_initial_session(tbl, session_id) ==
    [state |-> initial_state,
     table |-> save_session_state(tbl, session_id, initial_state)]

\* get_or_create_session that never looks for the existing row
get_or_create_session_always_creating(tbl, session_id) ==
    [state |-> create_initial_session(tbl, session_id).state,
     table |-> create_initial_session(tbl, session_id).table,
     created |-> TRUE]

\* get_or_create_session: the existing state, else a created initial one
get_or_create_session(tbl, session_id) ==
    LET existing_state == get_session_state(tbl, session_id)
    IN  IF existing_state.found
        THEN [state |-> existing_state.state, table |-> tbl, created |-> FALSE]
        ELSE [state |-> create_initial_session(tbl, session_id).state,
              table |-> create_initial_session(tbl, session_id).table,
              created |-> TRUE]

\* reset_session that leaves an existing row as it is
reset_session_keeping_row(tbl, session_id) ==
    [state |-> get_or_create_session(tbl, session_id).state,
     table |-> get_or_create_session(tbl, session_id).table]

\* reset_session: create_initial_session over whatever row there is
reset_session(tbl, session_id) ==
    [state |-> create_initial_session(tbl, session_id).state,
     table |-> create_initial_session(tbl, session_id).table]

\* ------------------------------------------------------------------ events
TokenEvent ==
    [event |-> "token", code |-> "", session_state |-> None, next_actions |-> <<>>]
\* an error event: data is {"error": error, "detail": ...}; the detail is
\* str(e), or "Unknown session state: {current_state}"
ErrorEvent(error) ==
    [event |-> "error", code |-> error, session_state |-> None, next_actions |-> <<>>,
     detail |-> "str(e)"]
\* a done event; advice is the advice text it carries: "response" of
\* advice_provided, "previous_advice" of follow_up; foods_analyzed of
\* advice_provided is session_state["extracted_foods"]
DoneEvent(state, status, next_actions) ==
    [event |-> "done", code |-> status, session_state |-> state.current_state,
     next_actions |-> next_actions,
     advice |-> IF status \in {"advice_provided", "follow_up"}
                THEN state.advisor_recommendations ELSE None,
     foods_analyzed |-> IF status = "advice_provided"
                        THEN [i \in DOMAIN state.extracted_foods |->
                                 state.extracted_foods[i].name]
                        ELSE <<>>]

\* chat.py event_generator: the event types that end the stream
IsTerminal(ev) == ev.event \in {"done", "error"}

\* chat.py _determine_next_actions: the suggested actions of a stage
determine_next_actions(stage) ==
    CASE stage = INITIAL -> <<"start_tracking">>
      [] stage = CLARIFYING -> <<"provide_clarification">>
      [] stage = ADVISING -> <<"wait_for_analysis">>
      [] stage = ADVISED -> <<"view_summary", "add_more_food", "reset">>
      [] OTHER -> <<>>

\* what one uninterrupted run of a handler does
Outcome(next_pc, state, saves, evs) ==
    [pc |-> next_pc,            \* where the handler suspends ("done": finished)
     state |-> state,           \* its session_state dict afterwards
     saves |-> saves,           \* the dicts it passed to _save_session_state, in order
     events |-> evs,            \* the events it yielded, in order
     raised |-> FALSE,          \* an exception left the handler
     failed |-> "none",         \* the capability whose failure it reported
     invoked |-> "none",        \* the capability it called
     invoke_after |-> 0,        \* how many of the saves preceded that call
     returned |-> FALSE,        \* extraction returned a result
     foods |-> <<>>]            \* the foods of that result

\* ------------------------------------------------------------- capabilities
\* repositories/extraction.py extract_foods_structured is a plain function:
\* it raises, or returns a FoodExtractionResult (never a coroutine)
ExtractorOutcomes ==
    {[raised |-> TRUE, awaitable |-> FALSE, foods |-> <<>>]}
    \cup {[raised |-> FALSE, awaitable |-> FALSE, foods |-> f] : f \in FoodLists}

\* `await x`: x's result when x is awaitable, TypeError otherwise
Await(x) ==
    IF x.raised \/ ~x.awaitable
    THEN [raised |-> TRUE, foods |-> <<>>]
    ELSE [raised |-> FALSE, foods |-> x.foods]


\* the food search agent (an LLM with tools) answers with a FoodSearchResult
\* that splits the payload into foods and unmatched_foods, with some other
\* content, or raises
SearchOutcomes(state) ==
    LET names == [i \in DOMAIN state.extracted_foods |-> state.extracted_foods[i].name]
    IN  {[raised |-> TRUE, kind |-> "none", foods |-> <<>>, unmatched_foods |-> <<>>],
         [raised |-> FALSE, kind |-> "text", foods |-> <<>>, unmatched_foods |-> <<>>]}
        \cup {[raised |-> FALSE, kind |-> "FoodSearchResult",
               foods |-> SelectSeq2(names, keep),
               unmatched_foods |-> SelectSeq2(names, [i \in DOMAIN keep |-> ~keep[i]])]
              : keep \in [DOMAIN names -> BOOLEAN]}

\* ------------------------------------------------------------ MainWorkflow
\* _is_search_complete that also requires every food to be matched
is_search_complete_all_matched(search_result) ==
    /\ search_result.kind = "FoodSearchResult"
    /\ Len(search_result.foods) > 0
    /\ search_result.unmatched_foods = <<>>

\* _is_search_complete: structured content with at least one food
is_search_complete(search_result) ==
    /\ search_result.kind = "FoodSearchResult"
    /\ Len(search_result.foods) > 0

\* _is_new_food_tracking: the message contains one of the food keywords
is_new_food_tracking(message) == message \in {"makan bubur"}

\* _route_to_search_agent without the `return` after the no_foods error
route_to_search_agent_no_return(state) ==
    IF state.extracted_foods = <<>>
    THEN [Outcome("search", state, <<>>, <<ErrorEvent("no_foods")>>) EXCEPT !.invoked = "search"]
    ELSE [Outcome("search", state, <<>>, <<>>) EXCEPT !.invoked = "search"]

\* _route_to_search_agent that streams a progress token before the search
route_to_search_agent_announcing(state) ==
    IF state.extracted_foods = <<>>
    THEN Outcome("done", state, <<>>, <<ErrorEvent("no_foods")>>)
    ELSE [Outcome("search", state, <<>>, <<TokenEvent>>) EXCEPT !.invoked = "search"]

\* _route_to_search_agent up to `await food_search_agent.arun(...)`
route_to_search_agent(state) ==
    IF state.extracted_foods = <<>>
    THEN Outcome("done", state, <<>>, <<ErrorEvent("no_foods")>>)
    ELSE [Outcome("search", state, <<>>, <<>>) EXCEPT !.invoked = "search"]

\* prefix a handler's saves with those made before it was entered
After(saves, o) ==
    [o EXCEPT !.saves = saves \o @,
              !.invoke_after = IF o.invoked = "none" THEN 0 ELSE @ + Len(saves)]

\* the names of the foods flagged needs_clarification, in order
needs_clarification_of(foods) ==
    LET flagged == [i \in DOMAIN foods |-> foods[i].needs_clarification]
    IN  SelectSeq2([i \in DOMAIN foods |-> foods[i].name], flagged)

\* _route_to_extractor, given what extract_foods_structured(user_message) did
route_to_extractor(session_state_, user_message, out) ==
    LET extraction_result == Await(out)
        extracted == [session_state_ EXCEPT !.extracted_foods = extraction_result.foods,
                                            !.user_message = user_message]
        needs_clarification == needs_clarification_of(extraction_result.foods)
        clarifying == [extracted EXCEPT !.pending_clarifications = needs_clarification,
                                        !.current_state = CLARIFYING]
        advising == [extracted EXCEPT !.current_state = ADVISING]
        o == IF extraction_result.raised
             THEN [Outcome("done", session_state_, <<>>, <<ErrorEvent("extraction_failed")>>)
                      EXCEPT !.failed = IF out.raised THEN "extraction" ELSE "none"]
             ELSE IF needs_clarification # <<>>
             THEN Outcome("done", clarifying, <<clarifying>>,
                          <<DoneEvent(clarifying, "needs_clarification",
                                      <<"provide_clarification">>)>>)
             ELSE After(<<advising>>, route_to_search_agent(advising))
    IN  [o EXCEPT !.invoked = IF @ = "none" THEN "extraction" ELSE @,
                  !.returned = ~out.raised,
                  !.foods = out.foods]

\* _handle_clarification: records the answer, saves ADVISING, then looks up
\* self._route_to_search_agent_stream, which MainWorkflow does not define
handle_clarification(session_state_, user_message) ==
    LET answered == [session_state_ EXCEPT
                        !.clarification_responses = DictSet(@, "latest", user_message),
                        !.current_state = ADVISING]
    IN  [Outcome("done", answered, <<answered>>, <<>>) EXCEPT !.raised = TRUE]

\* _handle_post_advice that stores the follow-up message in the session
handle_post_advice_saving(session_state_, user_message) ==
    LET asked == [session_state_ EXCEPT !.user_message = user_message]
    IN  IF is_new_food_tracking(user_message)
        THEN [Outcome("done", session_state_, <<>>, <<>>) EXCEPT !.raised = TRUE]
        ELSE Outcome("done", asked, <<asked>>,
                     <<DoneEvent(asked, "follow_up",
                                 <<"add_more_food", "ask_question", "reset">>)>>)

\* _handle_post_advice that saves the cleared dict before going on
handle_post_advice_saving_cleared(session_state_, user_message) ==
    IF is_new_food_tracking(user_message)
    THEN LET cleared == [session_state_ EXCEPT
                            !.current_state = INITIAL,
                            !.extracted_foods = <<>>,
                            !.pending_clarifications = <<>>,
                            !.clarification_responses = EmptyDict,
                            !.advisor_recommendations = None]
         IN  [Outcome("done", cleared, <<cleared>>, <<>>) EXCEPT !.raised = TRUE]
    ELSE Outcome("done", session_state_, <<>>,
                 <<DoneEvent(session_state_, "follow_up",
                             <<"add_more_food", "ask_question", "reset">>)>>)

\* _handle_post_advice: a new tracking request clears the dict and looks up
\* self._route_to_extractor_stream, which MainWorkflow does not define;
\* anything else is answered from the stored advice
handle_post_advice(session_state_, user_message) ==
    IF is_new_food_tracking(user_message)
    THEN LET cleared == [session_state_ EXCEPT
                            !.current_state = INITIAL,
                            !.extracted_foods = <<>>,
                            !.pending_clarifications = <<>>,
                            !.clarification_responses = EmptyDict,
                            !.advisor_recommendations = None]
         IN  [Outcome("done", cleared, <<>>, <<>>) EXCEPT !.raised = TRUE]
    ELSE Outcome("done", session_state_, <<>>,
                 <<DoneEvent(session_state_, "follow_up",
                             <<"add_more_food", "ask_question", "reset">>)>>)

\* process_user_input (not streamed): each known stage awaits the async
\* generator its handler returns, which raises TypeError; any other stage
\* returns {"error": "Unknown session state: {current_state}"}
process_user_input(session_state_) ==
    IF session_state_.current_state \in Stages
    THEN [raised |-> TRUE, error |-> None]
    ELSE [raised |-> FALSE, error |-> session_state_.current_state]

\* the dispatch that treats an unknown current_state as INITIAL
dispatch_defaulting_to_initial(session_state_, user_message, out) ==
    CASE session_state_.current_state = CLARIFYING ->
            handle_clarification(session_state_, user_message)
      [] session_state_.current_state = ADVISING ->
            route_to_search_agent(session_state_)
      [] session_state_.current_state = ADVISED ->
            handle_post_advice(session_state_, user_message)
      [] OTHER ->
            route_to_extractor([session_state_ EXCEPT !.current_state = INITIAL],
                               user_message, out)

\* the dispatch of process_user_input_stream on current_state
dispatch(session_state_, user_message, out) ==
    CASE session_state_.current_state = INITIAL ->
            route_to_extractor(session_state_, user_message, out)
      [] session_state_.current_state = CLARIFYING ->
            handle_clarification(session_state_, user_message)
      [] session_state_.current_state = ADVISING ->
            route_to_search_agent(session_state_)
      [] session_state_.current_state = ADVISED ->
            handle_post_advice(session_state_, user_message)
      [] OTHER ->
            Outcome("done", session_state_, <<>>,
                    <<[ErrorEvent("unknown_state") EXCEPT
                          !.detail = session_state_.current_state]>>)

\* the `except Exception` of process_user_input_stream
catch_workflow_error(o) ==
    IF o.raised
    THEN [o EXCEPT !.raised = FALSE,
                   !.pc = "done",
                   !.events = @ \o <<ErrorEvent("workflow_error")>>]
    ELSE o


\* _route_to_search_agent that restarts the cycle when the search is incomplete
after_search_restarting(session_state_, search_result) ==
    IF search_result.raised
    THEN [Outcome("done", session_state_, <<>>, <<ErrorEvent("search_failed")>>)
             EXCEPT !.failed = "search"]
    ELSE IF is_search_complete(search_result)
    THEN [Outcome("advisor_call", session_state_, <<>>, <<>>) EXCEPT !.invoked = "advice"]
    ELSE LET restarted == [session_state_ EXCEPT !.current_state = INITIAL]
         IN  Outcome("done", restarted, <<restarted>>,
                     <<DoneEvent(restarted, "needs_more_clarification",
                                 <<"provide_clarification">>)>>)

\* _route_to_search_agent after `await food_search_agent.arun(...)`, up to
\* `await asyncio.to_thread(NutritionAdvisorAgent.run_stream, prompt)`
after_search(session_state_, search_result) ==
    IF search_result.raised
    THEN [Outcome("done", session_state_, <<>>, <<ErrorEvent("search_failed")>>)
             EXCEPT !.failed = "search"]
    ELSE IF is_search_complete(search_result)
    THEN [Outcome("advisor_call", session_state_, <<>>, <<>>) EXCEPT !.invoked = "advice"]
    ELSE LET clarifying == [session_state_ EXCEPT !.current_state = CLARIFYING]
         IN  Outcome("done", clarifying, <<clarifying>>,
                     <<DoneEvent(clarifying, "needs_more_clarification",
                                 <<"provide_clarification">>)>>)

\* _route_to_advisor_stream when the to_thread call raises
advisor_call_failed(session_state_) ==
    [Outcome("done", session_state_, <<>>, <<ErrorEvent("analysis_failed")>>)
        EXCEPT !.failed = "advice"]

\* _route_to_advisor_stream that saves the partial advice when the stream raises
advisor_stream_failed_saving_partial(session_state_) ==
    LET partial == [session_state_ EXCEPT !.advisor_recommendations = "joined tokens"]
    IN  [Outcome("done", partial, <<partial>>, <<ErrorEvent("analysis_failed")>>)
            EXCEPT !.failed = "advice"]

\* _route_to_advisor_stream when iterating the stream raises
advisor_stream_failed(session_state_) ==
    [Outcome("done", session_state_, <<>>, <<ErrorEvent("analysis_failed")>>)
        EXCEPT !.failed = "advice"]

\* _route_to_advisor_stream that saves ADVISED with the advice so far at
\* every token
advisor_content_chunk_saving(session_state_) ==
    LET partial == [session_state_ EXCEPT !.advisor_recommendations = "joined tokens",
                                          !.current_state = ADVISED]
    IN  Outcome("streaming", partial, <<partial>>, <<TokenEvent>>)

\* _route_to_advisor_stream: a run_content chunk with content yields a token
advisor_content_chunk(session_state_) ==
    Outcome("streaming", session_state_, <<>>, <<TokenEvent>>)

\* advice_text: the formatted final analysis, else the joined tokens
advice_text(final_analysis, parts) ==
    IF final_analysis # None THEN "formatted analysis"
    ELSE IF parts > 0 THEN "joined tokens"
    ELSE ""

\* _route_to_advisor_stream that stores the advice without setting ADVISED
advisor_finished_stage_unset(session_state_, final_analysis, parts) ==
    LET advised == [session_state_ EXCEPT
                       !.advisor_recommendations = advice_text(final_analysis, parts)]
    IN  Outcome("done", advised, <<advised>>,
                <<DoneEvent(advised, "advice_provided",
                            <<"view_summary", "add_more_food", "reset">>)>>)

\* _route_to_advisor_stream once the stream is exhausted
advisor_finished(session_state_, final_analysis, parts) ==
    LET advised == [session_state_ EXCEPT
                       !.advisor_recommendations = advice_text(final_analysis, parts),
                       !.current_state = ADVISED]
    IN  Outcome("done", advised, <<advised>>,
                <<DoneEvent(advised, "advice_provided",
                            <<"view_summary", "add_more_food", "reset">>)>>)

\* chat.py event_generator: forwards each event and stops after a terminal one
RECURSIVE event_generator(_, _)
event_generator(sent, evs) ==
    IF evs = <<>> THEN sent
    ELSE IF sent # <<>> /\ IsTerminal(sent[Len(sent)]) THEN sent
    ELSE event_generator(Append(sent, [event |-> evs[1].event, data |-> evs[1]]),
                         Tail(evs))

\* ------------------------------------------------------------- bookkeeping
NoRequest == [op |-> "", session_id |-> "", user_message |-> ""]
NoInflight == [search_result |-> [raised |-> FALSE, kind |-> "none",
                                  foods |-> <<>>, unmatched_foods |-> <<>>],
               parts |-> 0,
               final_analysis |-> None]
NoHist ==
    [before |-> Absent,        \* the row when get_or_create_session was called
     got |-> initial_state,    \* the dict get_or_create_session returned
     loaded |-> Absent,        \* the row when it returned
     created |-> FALSE,        \* it created the row
     existing |-> FALSE,       \* save_session_state's query found a row
     returned |-> FALSE,       \* extraction returned a result
     foods |-> <<>>,           \* the foods of that result
     failed |-> "none",        \* the capability that failed
     invoked |-> {},           \* the capabilities called
     writes |-> <<>>,          \* the documents written by the handler, in order
     at_invoke |-> Absent,     \* the persisted document when the last capability was called
     at_end |-> Absent]        \* the persisted document when the terminal event was yielded

RECURSIVE SaveAll(_, _, _)
SaveAll(tbl, session_id, saves) ==
    IF saves = <<>> THEN tbl
    ELSE SaveAll(save_session_state(tbl, session_id, saves[1]), session_id, Tail(saves))

\* the effect of one run of handler c with outcome o, h being its history
Apply(c, session_id, o, h) ==
    LET tbl == SaveAll(store, session_id, o.saves)
        docs == [i \in DOMAIN o.saves |-> JsonDumps(o.saves[i])]
    IN  /\ store' = tbl
        /\ pc' = [pc EXCEPT ![c] = o.pc]
        /\ session_state' = [session_state EXCEPT ![c] = o.state]
        /\ events' = [events EXCEPT ![c] = @ \o o.events]
        /\ sse' = [sse EXCEPT ![c] = event_generator(@, o.events)]
        /\ hist' = [hist EXCEPT ![c] =
              [h EXCEPT
                 !.failed = IF o.failed # "none" THEN o.failed ELSE @,
                 !.invoked = IF o.invoked # "none" THEN @ \cup {o.invoked} ELSE @,
                 !.writes = @ \o docs,
                 !.at_invoke =
                    IF o.invoked = "none" THEN @
                    ELSE IF o.invoke_after = 0 THEN store[session_id]
                    ELSE docs[o.invoke_after],
                 !.at_end = IF o.pc = "done" THEN tbl[session_id] ELSE @]]


\* --------------------------------------------------------------- the rows
\* app_sessions outlives the process (init_db only creates missing tables,
\* migrate_sessions_table.py carries the rows over): a run starts from rows
\* of the shape the save sites of the workflow write
AdviceTexts == {"formatted analysis", "joined tokens", ""}

StartStates ==
    {st \in [current_state : Stages \cup {UnknownStage},
             extracted_foods : FoodLists,
             pending_clarifications : UNION {[1..n -> Names] : n \in 0..MaxFoods},
             clarification_responses : {EmptyDict, {<<"latest", "thanks">>}},
             advisor_recommendations : {None} \cup AdviceTexts,
             user_message : {None, "makan bubur"}] :
        /\ st.pending_clarifications \in {<<>>, needs_clarification_of(st.extracted_foods)}
        /\ st.advisor_recommendations # None => st.current_state = ADVISED
        /\ st.current_state = ADVISED => st.advisor_recommendations # None
        /\ st.current_state = INITIAL => st = initial_state
        /\ st.current_state \in {CLARIFYING, ADVISED} => st.extracted_foods # <<>>
        /\ st.current_state # INITIAL => st.user_message # None}

Init ==
    /\ store \in [SessionIds -> {Absent} \cup {JsonDumps(st) : st \in StartStates}]
    /\ store["s2"] = Absent
    /\ store0 = store
    /\ pc = [c \in Calls |-> "idle"]
    /\ req = [c \in Calls |-> NoRequest]
    /\ session_state = [c \in Calls |-> initial_state]
    /\ inflight = [c \in Calls |-> NoInflight]
    /\ events = [c \in Calls |-> <<>>]
    /\ sse = [c \in Calls |-> <<>>]
    /\ hist = [c \in Calls |-> NoHist]
    /\ ncalls = 0
    /\ now = 0

\* ----------------------------------------------------------------- actions
\* process_user_input_stream from its call to its first suspension point,
\* for a session whose loaded current_state is `stage`
Enter(c, stage) ==
    /\ ncalls < MaxCalls
    /\ \E session_id \in SessionIds, user_message \in Messages, out \in ExtractorOutcomes :
          LET goc == get_or_create_session(store, session_id)
              created == IF goc.created THEN <<goc.state>> ELSE <<>>
              o == catch_workflow_error(
                       After(created, dispatch(goc.state, user_message, out)))
          IN  /\ goc.state.current_state = stage
              /\ stage # INITIAL => out = [raised |-> TRUE, awaitable |-> FALSE, foods |-> <<>>]
              /\ req' = [req EXCEPT ![c] = [op |-> "process_user_input_stream",
                                            session_id |-> session_id,
                                            user_message |-> user_message]]
              /\ Apply(c, session_id, o,
                       [NoHist EXCEPT !.before = store[session_id],
                                      !.got = goc.state,
                                      !.loaded = goc.table[session_id],
                                      !.created = goc.created,
                                      !.returned = o.returned,
                                      !.foods = o.foods])
    /\ inflight' = [inflight EXCEPT ![c] = NoInflight]
    /\ ncalls' = ncalls + 1
    /\ UNCHANGED <<now, store0>>

\* ... dispatched to _route_to_extractor
Extractor(c) ==
    /\ pc[c] = "idle"
    /\ Enter(c, INITIAL)

\* ... dispatched to _handle_clarification
Clarification(c) ==
    /\ pc[c] = "idle"
    /\ Enter(c, CLARIFYING)

\* ... dispatched to _route_to_search_agent
SearchAgent(c) ==
    /\ pc[c] = "idle"
    /\ Enter(c, ADVISING)

\* ... dispatched to _handle_post_advice
PostAdvice(c) ==
    /\ pc[c] = "idle"
    /\ Enter(c, ADVISED)

\* ... with a current_state the dispatch does not know
UnknownState(c) ==
    /\ pc[c] = "idle"
    /\ Enter(c, UnknownStage)

\* food_search_agent.arun returns or raises
SearchReturns(c) ==
    /\ pc[c] = "search"
    /\ \E search_result \in SearchOutcomes(session_state[c]) :
          /\ inflight' = [inflight EXCEPT ![c].search_result = search_result]
          /\ Apply(c, req[c].session_id, after_search(session_state[c], search_result), hist[c])
    /\ UNCHANGED <<now, store0, req, ncalls>>

\* asyncio.to_thread(NutritionAdvisorAgent.run_stream, prompt) returns the stream
AdvisorStreamOpens(c) ==
    /\ pc[c] = "advisor_call"
    /\ Apply(c, req[c].session_id, Outcome("streaming", session_state[c], <<>>, <<>>), hist[c])
    /\ UNCHANGED <<now, store0, req, inflight, ncalls>>

\* ... or raises
AdvisorCallFails(c) ==
    /\ pc[c] = "advisor_call"
    /\ Apply(c, req[c].session_id, advisor_call_failed(session_state[c]), hist[c])
    /\ UNCHANGED <<now, store0, req, inflight, ncalls>>

\* the stream delivers a run_content chunk with content
AdvisorContent(c) ==
    /\ pc[c] = "streaming"
    /\ inflight[c].parts < MaxTokens
    /\ inflight' = [inflight EXCEPT ![c].parts = @ + 1]
    /\ Apply(c, req[c].session_id, advisor_content_chunk(session_state[c]), hist[c])
    /\ UNCHANGED <<now, store0, req, ncalls>>

\* the stream delivers a run_completed chunk with content
AdvisorCompleted(c) ==
    /\ pc[c] = "streaming"
    /\ inflight[c].final_analysis = None
    /\ inflight' = [inflight EXCEPT ![c].final_analysis = "analysis"]
    /\ Apply(c, req[c].session_id, Outcome("streaming", session_state[c], <<>>, <<>>), hist[c])
    /\ UNCHANGED <<now, store0, req, ncalls>>

\* iterating the stream raises
AdvisorStreamFails(c) ==
    /\ pc[c] = "streaming"
    /\ Apply(c, req[c].session_id, advisor_stream_failed(session_state[c]), hist[c])
    /\ UNCHANGED <<now, store0, req, inflight, ncalls>>

\* the stream is exhausted
AdvisorExhausted(c) ==
    /\ pc[c] = "streaming"
    /\ Apply(c, req[c].session_id,
             advisor_finished(session_state[c], inflight[c].final_analysis,
                              inflight[c].parts), hist[c])
    /\ UNCHANGED <<now, store0, req, inflight, ncalls>>

\* the response is closed; the handler's objects are dropped
Return(c) ==
    /\ pc[c] = "done"
    /\ pc' = [pc EXCEPT ![c] = "idle"]
    /\ req' = [req EXCEPT ![c] = NoRequest]
    /\ session_state' = [session_state EXCEPT ![c] = initial_state]
    /\ inflight' = [inflight EXCEPT ![c] = NoInflight]
    /\ events' = [events EXCEPT ![c] = <<>>]
    /\ sse' = [sse EXCEPT ![c] = <<>>]
    /\ hist' = [hist EXCEPT ![c] = NoHist]
    /\ UNCHANGED <<now, store, store0, ncalls>>

\* one request at a time
Handlers == {"a"}

Next ==
    \E c \in Handlers :
        \/ Extractor(c)
        \/ Clarification(c)
        \/ SearchAgent(c)
        \/ PostAdvice(c)
        \/ UnknownState(c)
        \/ SearchReturns(c)
        \/ AdvisorStreamOpens(c)
        \/ AdvisorCallFails(c)
        \/ AdvisorContent(c)
        \/ AdvisorCompleted(c)
        \/ AdvisorStreamFails(c)
        \/ AdvisorExhausted(c)
        \/ Return(c)

Spec == Init /\ [][Next]_vars


\* ------------------------------------------------------------------ claims
Finished(c) == pc[c] = "done"
LoadedStage(c) == hist[c].loaded.current_state
EndStage(c) == hist[c].at_end.current_state
LastEvent(c) == events[c][Len(events[c])]
WrittenStages(c) == {hist[c].writes[i].current_state : i \in DOMAIN hist[c].writes}
Flagged(foods) == needs_clarification_of(foods) # <<>>

\* C1: a call on an INITIAL session whose extraction returns a list with a
\* flagged item ends with the persisted stage CLARIFYING, never sets the
\* stage to ADVISING and invokes neither the search nor the advice step
C1_FlaggedExtractionEndsClarifying ==
    \A c \in Calls :
        (Finished(c) /\ LoadedStage(c) = INITIAL /\ hist[c].returned /\ Flagged(hist[c].foods))
        => /\ EndStage(c) = CLARIFYING
           /\ ADVISING \notin WrittenStages(c)
           /\ hist[c].invoked \cap {"search", "advice"} = {}

\* C2: a call on an INITIAL session whose extraction returns a list without
\* flagged items, no capability failing, ends with the persisted stage
\* ADVISED or CLARIFYING, never INITIAL or ADVISING
C2_ClearExtractionReachesAdvice ==
    \A c \in Calls :
        (Finished(c) /\ LoadedStage(c) = INITIAL /\ hist[c].returned
            /\ ~Flagged(hist[c].foods) /\ hist[c].failed = "none")
        => EndStage(c) \in {ADVISED, CLARIFYING}

\* the ADVISING handler ran to its done event
SearchHandlerCompleted(c) ==
    /\ Finished(c)
    /\ "search" \in hist[c].invoked
    /\ LastEvent(c).event = "done"

AllResolved(c) ==
    /\ inflight[c].search_result.kind = "FoodSearchResult"
    /\ Len(inflight[c].search_result.foods) = Len(session_state[c].extracted_foods)

\* C3 (as claimed): when the ADVISING handler completes, the stage is ADVISED
\* only if every extracted item was resolved; otherwise it is CLARIFYING and
\* no analysis is produced
C3_AdvisedOnlyIfAllResolved ==
    \A c \in Calls :
        SearchHandlerCompleted(c)
        => /\ EndStage(c) = ADVISED => AllResolved(c)
           /\ ~AllResolved(c) => (EndStage(c) = CLARIFYING /\ "advice" \notin hist[c].invoked)

\* C3 (amended): when the ADVISING handler completes, the stage is ADVISED
\* exactly when the search returned a structured result with at least one
\* food, whatever remains unmatched; otherwise it is CLARIFYING, the advice
\* step is not invoked and the stored analysis is the one loaded
C3_AdvisedIffSomeFoodFound ==
    \A c \in Calls :
        SearchHandlerCompleted(c)
        => LET r == inflight[c].search_result
               found == r.kind = "FoodSearchResult" /\ Len(r.foods) > 0
           IN  /\ found => EndStage(c) = ADVISED
               /\ ~found => /\ EndStage(c) = CLARIFYING
                            /\ "advice" \notin hist[c].invoked
                            /\ hist[c].at_end.advisor_recommendations
                                  = hist[c].loaded.advisor_recommendations

\* C3 witness: advice was given although an extracted item is unmatched
C3_Witness ==
    \E c \in Calls :
        /\ SearchHandlerCompleted(c)
        /\ EndStage(c) = ADVISED
        /\ Len(inflight[c].search_result.unmatched_foods) > 0


\* C4: every streamed invocation emits exactly one terminal event (done or
\* error), on every path, and no event follows it; the same holds for the
\* events the chat endpoint forwards
OneTerminalLast(evs, finished) ==
    /\ \A i \in 1..(Len(evs) - 1) : evs[i].event \notin {"done", "error"}
    /\ finished <=> (evs # <<>> /\ evs[Len(evs)].event \in {"done", "error"})

C4_ExactlyOneTerminalEvent ==
    \A c \in Calls :
        /\ OneTerminalLast(events[c], Finished(c))
        /\ OneTerminalLast(sse[c], Finished(c))

\* C4 witness: a stream of tokens closed by its done event
C4_Witness ==
    \E c \in Calls :
        /\ Finished(c)
        /\ Len(sse[c]) = MaxTokens + 1
        /\ sse[c][1].event = "token"
        /\ sse[c][Len(sse[c])].event = "done"

\* the stage whose handler calls a capability
StageCalling(capability) ==
    IF capability = "extraction" THEN INITIAL ELSE ADVISING

\* C5: when a capability fails the call ends with an error, the persisted
\* state is the one saved before the failing capability was called, and its
\* stage is the one whose handler runs that capability again
C5_FailureKeepsLastSavedState ==
    \A c \in Calls :
        (Finished(c) /\ hist[c].failed # "none")
        => /\ LastEvent(c).event = "error"
           /\ hist[c].at_end = hist[c].at_invoke
           /\ EndStage(c) = StageCalling(hist[c].failed)

\* C5 witness: the advice stream failed after tokens were emitted
C5_Witness ==
    \E c \in Calls :
        /\ Finished(c)
        /\ hist[c].failed = "advice"
        /\ Len(events[c]) > 1

Rank(stage) ==
    CASE stage = INITIAL -> 1
      [] stage = CLARIFYING -> 2
      [] stage = ADVISING -> 3
      [] stage = ADVISED -> 4
      [] OTHER -> 0

StageMoves(Allowed(_, _)) ==
    \A sid \in SessionIds :
        (store[sid] # Absent /\ store'[sid] # Absent
            /\ store[sid].current_state \in Stages
            /\ store'[sid].current_state \in Stages)
        => Allowed(store[sid].current_state, store'[sid].current_state)

Forward(from, to) == Rank(to) >= Rank(from)
ForwardOrBackToClarifying(from, to) ==
    Forward(from, to) \/ (from = ADVISING /\ to = CLARIFYING)

\* C6 (as claimed): the persisted stage never moves from a later stage of
\* INITIAL, CLARIFYING, ADVISING, ADVISED to an earlier one
C6_StageOnlyMovesForward == [][StageMoves(Forward)]_vars

\* C6 (amended): the persisted stage never moves to an earlier stage, except
\* from ADVISING back to CLARIFYING
C6_ForwardExceptBackToClarifying == [][StageMoves(ForwardOrBackToClarifying)]_vars

\* C6 witness: a session found CLARIFYING has moved forward to ADVISED
C6_Witness ==
    /\ store0["s1"] # Absent
    /\ store0["s1"].current_state = CLARIFYING
    /\ store["s1"].current_state = ADVISED

\* C7: a persisted session has an analysis only if its stage is ADVISED
C7_AnalysisOnlyWhenAdvised ==
    \A sid \in SessionIds :
        (store[sid] # Absent /\ store[sid].advisor_recommendations # JsonNull)
        => store[sid].current_state = ADVISED

\* C7 witness: a call has persisted an analysis
C7_Witness ==
    \E c \in Calls :
        /\ Finished(c)
        /\ LoadedStage(c) = ADVISING
        /\ hist[c].at_end.advisor_recommendations \notin {JsonNull, ""}

\* C10: get_or_create_session on an id without a row persists and returns
\* the INITIAL state with empty collections and no analysis; on the row that
\* leaves, it returns the identical state and writes nothing
IsFreshInitial(state) ==
    /\ state.current_state = INITIAL
    /\ state.extracted_foods = <<>>
    /\ state.pending_clarifications = <<>>
    /\ state.clarification_responses = EmptyDict
    /\ state.advisor_recommendations = None
    /\ state.user_message = None

C10_GetOrCreateFreshThenSame ==
    \A c \in Calls :
        pc[c] # "idle"
        => /\ hist[c].before = Absent
                => /\ hist[c].created
                   /\ IsFreshInitial(hist[c].got)
                   /\ hist[c].loaded # Absent
                   /\ IsFreshInitial(JsonLoads(hist[c].loaded))
           /\ hist[c].before # Absent
                => /\ ~hist[c].created
                   /\ hist[c].loaded = hist[c].before
           /\ (hist[c].before # Absent /\ IsFreshInitial(JsonLoads(hist[c].before)))
                => IsFreshInitial(hist[c].got)

\* C10 witness: the second call on a session the first call created
C10_Witness ==
    \E c \in Calls :
        /\ pc[c] # "idle"
        /\ req[c].session_id = "s2"
        /\ ~hist[c].created
        /\ IsFreshInitial(hist[c].got)


\* ------------------------------------------------- two overlapping requests
\* two requests are served at once, each suspended at its awaits
NextConc ==
    \E c \in Calls :
        \/ Extractor(c)
        \/ Clarification(c)
        \/ SearchAgent(c)
        \/ PostAdvice(c)
        \/ UnknownState(c)
        \/ SearchReturns(c)
        \/ AdvisorStreamOpens(c)
        \/ AdvisorCallFails(c)
        \/ AdvisorContent(c)
        \/ AdvisorCompleted(c)
        \/ AdvisorStreamFails(c)
        \/ AdvisorExhausted(c)

SpecConc == Init /\ [][NextConc]_vars

\* the row a finished call leaves when nothing else writes
LeftBy(c) ==
    IF hist[c].writes = <<>> THEN hist[c].loaded
    ELSE hist[c].writes[Len(hist[c].writes)]

\* C8: two overlapping calls on one session leave the state, and report the
\* stages, of the two calls run one after the other in some order: one call
\* saw the row as it was, the other saw the row the first left, and the row
\* is the one the second left
C8_OverlappingCallsSerializable ==
    \A sid \in SessionIds :
        (\A c \in Calls : Finished(c) /\ req[c].session_id = sid)
        => \E x \in Calls, y \in Calls :
              /\ x # y
              /\ hist[x].before = store0[sid]
              /\ hist[y].before = LeftBy(x)
              /\ store[sid] = LeftBy(y)


\* ------------------------------------------- the repository, by statements
\* the dicts the clients save: one per stage
SavedStates ==
    {st \in StartStates :
        /\ st.current_state \in Stages
        /\ st.pending_clarifications = needs_clarification_of(st.extracted_foods)
        /\ st.clarification_responses = EmptyDict
        /\ st.advisor_recommendations \in {None, "formatted analysis"}
        /\ Len(st.extracted_foods) = (IF st.current_state = INITIAL THEN 0 ELSE 1)}

InitStore ==
    /\ Init
    /\ store["s1"] \in {Absent} \cup {JsonDumps(st) : st \in SavedStates}

\* clients of SessionRepository that no event loop serialises (several
\* server processes on one database): every SQL statement is a step
CallGetOrCreate(c) ==
    /\ pc[c] = "idle"
    /\ ncalls < MaxCalls
    /\ \E session_id \in SessionIds :
          req' = [req EXCEPT ![c] = [op |-> "get_or_create_session",
                                     session_id |-> session_id,
                                     user_message |-> ""]]
    /\ pc' = [pc EXCEPT ![c] = "get"]
    /\ hist' = [hist EXCEPT ![c] = NoHist]
    /\ ncalls' = ncalls + 1
    /\ UNCHANGED <<now, store, store0, session_state, inflight, events, sse>>

CallSave(c) ==
    /\ pc[c] = "idle"
    /\ ncalls < MaxCalls
    /\ \E session_id \in SessionIds, state \in SavedStates :
          /\ req' = [req EXCEPT ![c] = [op |-> "save_session_state",
                                        session_id |-> session_id,
                                        user_message |-> ""]]
          /\ session_state' = [session_state EXCEPT ![c] = state]
    /\ pc' = [pc EXCEPT ![c] = "save_query"]
    /\ hist' = [hist EXCEPT ![c] = NoHist]
    /\ ncalls' = ncalls + 1
    /\ UNCHANGED <<now, store, store0, inflight, events, sse>>

\* get_or_create_session: get_session_state's query
GetQuery(c) ==
    /\ pc[c] = "get"
    /\ LET existing_state == get_session_state(store, req[c].session_id)
       IN  /\ pc' = [pc EXCEPT ![c] = IF existing_state.found THEN "done" ELSE "save_query"]
           /\ session_state' = [session_state EXCEPT ![c] =
                 IF existing_state.found THEN existing_state.state ELSE initial_state]
           /\ hist' = [hist EXCEPT ![c].before = store[req[c].session_id],
                                   ![c].got = IF existing_state.found
                                              THEN existing_state.state ELSE initial_state,
                                   ![c].loaded = store[req[c].session_id]]
    /\ UNCHANGED <<now, store, store0, req, inflight, events, sse, ncalls>>

\* save_session_state: the query for the existing row
SaveQuery(c) ==
    /\ pc[c] = "save_query"
    /\ pc' = [pc EXCEPT ![c] = "save_commit"]
    /\ hist' = [hist EXCEPT ![c].existing = save_query(store, req[c].session_id)]
    /\ UNCHANGED <<now, store, store0, req, session_state, inflight, events, sse, ncalls>>

\* save_session_state: the commit; create_initial_session raises on False
SaveCommit(c) ==
    /\ pc[c] = "save_commit"
    /\ LET saved == save_commit(store, req[c].session_id, session_state[c],
                                hist[c].existing)
       IN  /\ store' = saved.table
           /\ hist' = [hist EXCEPT
                 ![c].failed = IF saved.ok THEN "none" ELSE "save",
                 ![c].created = saved.ok /\ req[c].op = "get_or_create_session",
                 ![c].writes = IF saved.ok THEN <<JsonDumps(session_state[c])>> ELSE <<>>,
                 ![c].loaded = saved.table[req[c].session_id]]
    /\ pc' = [pc EXCEPT ![c] = "done"]
    /\ UNCHANGED <<now, store0, req, session_state, inflight, events, sse, ncalls>>

\* the client takes the result
StoreReturn(c) ==
    /\ pc[c] = "done"
    /\ pc' = [pc EXCEPT ![c] = "idle"]
    /\ req' = [req EXCEPT ![c] = NoRequest]
    /\ session_state' = [session_state EXCEPT ![c] = initial_state]
    /\ hist' = [hist EXCEPT ![c] = NoHist]
    /\ UNCHANGED <<now, store, store0, inflight, events, sse, ncalls>>

NextStore ==
    \E c \in Calls :
        \/ CallGetOrCreate(c)
        \/ CallSave(c)
        \/ GetQuery(c)
        \/ SaveQuery(c)
        \/ SaveCommit(c)
        \/ StoreReturn(c)

SpecStore == InitStore /\ [][NextStore]_vars

\* C9: under any interleaving of get_or_create_session and
\* save_session_state calls for one id, every get_or_create_session call
\* returns the session's state, never failing because another call
\* created the row first
C9_ConcurrentGetOrCreateReturns ==
    \A c \in Calls :
        (pc[c] = "done" /\ req[c].op = "get_or_create_session")
        => hist[c].failed = "none"


\* ------------------------------------------------- requests and explicit resets
\* POST /sessions/{id}/reset: MainWorkflow.reset_session, which has no
\* suspension point
Reset(c) ==
    /\ pc[c] = "idle"
    /\ ncalls < MaxCalls
    /\ \E session_id \in SessionIds :
          LET r == reset_session(store, session_id)
          IN  /\ store' = r.table
              /\ req' = [req EXCEPT ![c] = [op |-> "reset_session",
                                            session_id |-> session_id,
                                            user_message |-> ""]]
              /\ session_state' = [session_state EXCEPT ![c] = r.state]
              /\ hist' = [hist EXCEPT ![c] =
                    [NoHist EXCEPT !.before = store[session_id],
                                   !.got = r.state,
                                   !.loaded = store[session_id],
                                   !.at_end = r.table[session_id]]]
    /\ pc' = [pc EXCEPT ![c] = "done"]
    /\ ncalls' = ncalls + 1
    /\ UNCHANGED <<now, store0, inflight, events, sse>>

NextSessions ==
    \/ Next
    \/ \E c \in Handlers : Reset(c)

SpecSessions == Init /\ [][NextSessions]_vars

ResetDone(c) == Finished(c) /\ req[c].op = "reset_session"

\* C11: whatever the persisted state of a session, a reset leaves the row
\* equal to the fresh initial state (stage INITIAL, no foods, no pending
\* clarifications, no answers, no analysis) and returns that state; a reset
\* that follows a reset therefore yields the same state again
C11_ResetLeavesFreshInitial ==
    \A c \in Calls :
        ResetDone(c)
        => /\ hist[c].at_end = JsonDumps(initial_state)
           /\ store[req[c].session_id] = hist[c].at_end
           /\ IsFreshInitial(JsonLoads(store[req[c].session_id]))
           /\ IsFreshInitial(hist[c].got)

\* C11 witness: a session found CLARIFYING has been reset twice in succession
C11_Witness ==
    \E c \in Calls :
        /\ ResetDone(c)
        /\ req[c].session_id = "s1"
        /\ store0["s1"] # Absent
        /\ store0["s1"].current_state = CLARIFYING
        /\ hist[c].before = JsonDumps(initial_state)


\* ------------------------------------------------------ after the advice
PostAdviceDone(c) == Finished(c) /\ LoadedStage(c) = ADVISED

\* C12: a call on an ADVISED session with a new-tracking message re-enters
\* extraction with that message in the same call and ends with a persisted
\* stage of the new cycle whose extracted foods are those extracted from
\* the new message
C12_NewTrackingRestartsCycle ==
    \A c \in Calls :
        (PostAdviceDone(c) /\ is_new_food_tracking(req[c].user_message))
        => /\ "extraction" \in hist[c].invoked
           /\ EndStage(c) \in {CLARIFYING, ADVISING, ADVISED}
           /\ hist[c].at_end.extracted_foods
                 = JsonDumps([initial_state EXCEPT
                                 !.extracted_foods = hist[c].foods]).extracted_foods


\* C13: a call on an ADVISED session with a follow-up message ends with a
\* single done event that carries the stored analysis and the stage ADVISED,
\* and writes nothing: the row stays as it was loaded
C13_FollowUpReturnsStoredAdvice ==
    \A c \in Calls :
        (PostAdviceDone(c) /\ ~is_new_food_tracking(req[c].user_message))
        => /\ Len(events[c]) = 1
           /\ LastEvent(c).event = "done"
           /\ LastEvent(c).advice = PyOpt(hist[c].loaded.advisor_recommendations)
           /\ LastEvent(c).session_state = ADVISED
           /\ hist[c].writes = <<>>
           /\ hist[c].at_end = hist[c].loaded

\* C13 witness: a follow-up was answered with the stored formatted analysis
C13_Witness ==
    \E c \in Calls :
        /\ PostAdviceDone(c)
        /\ req[c].user_message = "thanks"
        /\ LastEvent(c).event = "done"
        /\ LastEvent(c).advice = "formatted analysis"


\* ------------------------------------------------------ the clarification
\* d.get(k): the value under key k, or None
DictGet(d, k) ==
    IF \E p \in d : p[1] = k
    THEN (CHOOSE p \in d : p[1] = k)[2]
    ELSE None

\* C14: a call on a CLARIFYING session stores the user's message in
\* clarification_responses under the identifier of each pending
\* clarification, and persists the stage ADVISING before the search runs
C14_AnswerRecordedPerPendingItem ==
    \A c \in Calls :
        (Finished(c) /\ LoadedStage(c) = CLARIFYING)
        => /\ \A i \in DOMAIN hist[c].loaded.pending_clarifications :
                 DictGet(hist[c].at_end.clarification_responses,
                         hist[c].loaded.pending_clarifications[i]) = req[c].user_message
           /\ ADVISING \in WrittenStages(c)
           /\ "search" \in hist[c].invoked => hist[c].at_invoke.current_state = ADVISING


\* ------------------------------------------------------- an unknown stage
\* C15: a call on a session whose persisted stage is none of INITIAL,
\* CLARIFYING, ADVISING, ADVISED ends with one error event that names that
\* stage value, calls no capability and writes nothing: the row, unknown
\* stage included, stays as it was; the call that is not streamed returns an
\* error naming the stage as well
C15_UnknownStageIsExplicitError ==
    \A c \in Calls :
        (Finished(c) /\ req[c].op = "process_user_input_stream"
            /\ LoadedStage(c) \notin Stages)
        => /\ Len(events[c]) = 1
           /\ LastEvent(c).event = "error"
           /\ LastEvent(c).code = "unknown_state"
           /\ LastEvent(c).detail = LoadedStage(c)
           /\ hist[c].invoked = {}
           /\ hist[c].writes = <<>>
           /\ hist[c].at_end = hist[c].loaded
           /\ process_user_input(hist[c].got)
                 = [raised |-> FALSE, error |-> LoadedStage(c)]

\* C15 witness: a call has found the stage "paused" and reported it
C15_Witness ==
    \E c \in Calls :
        /\ Finished(c)
        /\ LoadedStage(c) = UnknownStage
        /\ LastEvent(c).event = "error"
        /\ LastEvent(c).detail = UnknownStage
        /\ store[req[c].session_id].current_state = UnknownStage


\* ------------------------------------------------------ saves that fail
\* one run of handler c with outcome o whose save_session_state call fails:
\* commit() raises, the transaction is rolled back, save_session_state
\* returns False, and _save_session_state drops that result
ApplySaveFailing(c, session_id, o, h) ==
    /\ store' = store
    /\ pc' = [pc EXCEPT ![c] = o.pc]
    /\ session_state' = [session_state EXCEPT ![c] = o.state]
    /\ events' = [events EXCEPT ![c] = @ \o o.events]
    /\ sse' = [sse EXCEPT ![c] = event_generator(@, o.events)]
    /\ hist' = [hist EXCEPT ![c] =
          [h EXCEPT !.failed = "save",
                    !.invoked = IF o.invoked # "none" THEN @ \cup {o.invoked} ELSE @,
                    !.at_end = IF o.pc = "done" THEN store[session_id] ELSE @]]

\* a request for a session without a row, the INSERT failing:
\* create_initial_session raises, process_user_input_stream catches it
CreateFails(c) ==
    /\ pc[c] = "idle"
    /\ ncalls < MaxCalls
    /\ \E session_id \in SessionIds, user_message \in Messages :
          /\ ~get_session_state(store, session_id).found
          /\ req' = [req EXCEPT ![c] = [op |-> "process_user_input_stream",
                                        session_id |-> session_id,
                                        user_message |-> user_message]]
          /\ ApplySaveFailing(c, session_id,
                 catch_workflow_error(
                     [Outcome("done", initial_state, <<>>, <<>>) EXCEPT !.raised = TRUE]),
                 NoHist)
    /\ inflight' = [inflight EXCEPT ![c] = NoInflight]
    /\ ncalls' = ncalls + 1
    /\ UNCHANGED <<now, store0>>

\* a request on a CLARIFYING session, the save of ADVISING failing
ClarificationSaveFails(c) ==
    /\ pc[c] = "idle"
    /\ ncalls < MaxCalls
    /\ \E session_id \in SessionIds, user_message \in Messages :
          LET existing_state == get_session_state(store, session_id)
          IN  /\ existing_state.found
              /\ existing_state.state.current_state = CLARIFYING
              /\ req' = [req EXCEPT ![c] = [op |-> "process_user_input_stream",
                                            session_id |-> session_id,
                                            user_message |-> user_message]]
              /\ ApplySaveFailing(c, session_id,
                     catch_workflow_error(
                         handle_clarification(existing_state.state, user_message)),
                     [NoHist EXCEPT !.before = store[session_id],
                                    !.got = existing_state.state,
                                    !.loaded = store[session_id]])
    /\ inflight' = [inflight EXCEPT ![c] = NoInflight]
    /\ ncalls' = ncalls + 1
    /\ UNCHANGED <<now, store0>>

\* food_search_agent.arun returns an incomplete result, the save of
\* CLARIFYING failing
SearchReturnsSaveFails(c) ==
    /\ pc[c] = "search"
    /\ \E search_result \in SearchOutcomes(session_state[c]) :
          /\ after_search(session_state[c], search_result).saves # <<>>
          /\ inflight' = [inflight EXCEPT ![c].search_result = search_result]
          /\ ApplySaveFailing(c, req[c].session_id,
                              after_search(session_state[c], search_result), hist[c])
    /\ UNCHANGED <<now, store0, req, ncalls>>

\* the stream is exhausted, the save of ADVISED failing
AdvisorExhaustedSaveFails(c) ==
    /\ pc[c] = "streaming"
    /\ ApplySaveFailing(c, req[c].session_id,
                        advisor_finished(session_state[c], inflight[c].final_analysis,
                                         inflight[c].parts), hist[c])
    /\ UNCHANGED <<now, store0, req, inflight, ncalls>>

NextSaveFails ==
    \/ Next
    \/ \E c \in Handlers :
          \/ CreateFails(c)
          \/ ClarificationSaveFails(c)
          \/ SearchReturnsSaveFails(c)
          \/ AdvisorExhaustedSaveFails(c)

SpecSaveFails == Init /\ [][NextSaveFails]_vars

\* C16: a call during which a save failed ends with an error, never with a
\* done event whose stage is not the persisted one, and leaves the row as it
\* was before the failed save
C16_FailedSaveIsReported ==
    \A c \in Calls :
        (Finished(c) /\ hist[c].failed = "save")
        => /\ LastEvent(c).event = "error"
           /\ LastEvent(c).event = "done" => LastEvent(c).session_state = EndStage(c)
           /\ hist[c].at_end = LeftBy(c)


\* ------------------------------------------------------------- progress
\* some call on a session persisted as `state` does not end in an error
\* with the row unchanged: for some message and some answers of the
\* capabilities it writes a different state or ends with done
CallCanProgress(state) ==
    \E user_message \in Messages, out \in ExtractorOutcomes :
        LET o == catch_workflow_error(dispatch(state, user_message, out))
        IN  \/ /\ o.saves # <<>>
               /\ JsonDumps(o.saves[Len(o.saves)]) # JsonDumps(state)
            \/ /\ o.pc = "done"
               /\ o.events[Len(o.events)].event = "done"
            \/ /\ o.pc = "search"
               /\ \E search_result \in SearchOutcomes(o.state) :
                     LET a == after_search(o.state, search_result)
                     IN  a.saves # <<>> \/ a.pc = "advisor_call"

\* C17: no call leaves a session stuck: from the state a call leaves, some
\* later call can write a new state or end with done, without a reset
C17_NeverStuck ==
    \A c \in Calls :
        (Finished(c) /\ req[c].op = "process_user_input_stream" /\ EndStage(c) \in Stages)
        => CallCanProgress(JsonLoads(hist[c].at_end))


\* ---------------------------------------------------- the terminal result
StreamDone(c) == Finished(c) /\ req[c].op = "process_user_input_stream"

\* C18: the terminal event of every call, done or error, carries the stage
\* persisted when it is emitted; an error also carries a message and a
\* suggested next action
C18_TerminalCarriesStage ==
    \A c \in Calls :
        StreamDone(c)
        => /\ LastEvent(c).session_state = EndStage(c)
           /\ LastEvent(c).event = "error"
                 => /\ LastEvent(c).detail # ""
                    /\ LastEvent(c).next_actions # <<>>

\* C19: the next actions of a result are those _determine_next_actions
\* gives for the stage the result reports, whichever handler produced it
C19_NextActionsFollowStage ==
    \A c \in Calls :
        (StreamDone(c) /\ LastEvent(c).event = "done")
        => LastEvent(c).next_actions = determine_next_actions(LastEvent(c).session_state)


\* ------------------------------------------------------------ the tokens
IsToken(ev) == ev.event = "token"

\* C20: token events are yielded only while the advice is generated, after
\* the advice capability was called; nothing but tokens precedes a token, so
\* every token precedes the terminal event; a call that never reaches the
\* advice yields its terminal event only; the endpoint forwards as many
\* events as the workflow yields
C20_TokensOnlyFromAdvice ==
    \A c \in Calls :
        /\ \A i \in DOMAIN events[c] :
              IsToken(events[c][i])
              => /\ "advice" \in hist[c].invoked
                 /\ pc[c] \in {"streaming", "done"}
                 /\ \A j \in 1..i : IsToken(events[c][j])
        /\ (StreamDone(c) /\ "advice" \notin hist[c].invoked) => Len(events[c]) = 1
        /\ Len(sse[c]) = Len(events[c])

\* C20 witness: a call that streamed one token and then its done event
C20_Witness ==
    \E c \in Calls :
        /\ StreamDone(c)
        /\ "advice" \in hist[c].invoked
        /\ Len(events[c]) = 2
        /\ IsToken(events[c][1])
        /\ events[c][2].event = "done"


\* ------------------------------------------- streamed and not streamed
\* the row process_user_input leaves for the session a call loaded: it
\* calls get_or_create_session as the streamed form does and saves nothing
\* after it (the handlers it calls are async generators whose bodies never
\* start)
NotStreamedLeaves(c) == hist[c].loaded

\* C21: for the state a streamed call loaded, process_user_input returns a
\* result instead of raising, leaves the row the streamed call left, and
\* its result is the one the streamed call's terminal event carries (the
\* one value process_user_input ever returns is the unknown-state error)
C21_StreamedEqualsNotStreamed ==
    \A c \in Calls :
        StreamDone(c)
        => LET result == process_user_input(hist[c].got)
           IN  /\ ~result.raised
               /\ hist[c].at_end = NotStreamedLeaves(c)
               /\ LastEvent(c).event = "error"
               /\ LastEvent(c).detail = result.error


\* ------------------------------------------- agents/food_search.py
MaxCandidates == 6

\* the names of the food database, in the order search_food_db found them
CandidateNames ==
    <<"bubur ayam", "bubur kacang hijau", "bubur sumsum", "bubur manado",
      "bubur ketan hitam", "bubur candil", "bubur merah putih">>

\* token_set_ratio scores at or above the cutoff threshold * 100
Scores == {80, 84, 85, 100}

\* ExtractedFood: name is a str, local_name an Optional[str]
FoodItems ==
    [name : {"", "chicken porridge"},
     local_name : {None, "", " ", "bubur ayam"}]

\* str.strip() on the strings of the model
Strip(s) == IF s \in {"", " "} THEN "" ELSE s

\* the truth value of an Optional[str]
Truthy(s) == s \notin {None, ""}

\* query = food_item.local_name or food_item.name
query_of(food_item) ==
    IF Truthy(food_item.local_name) THEN food_item.local_name ELSE food_item.name

\* search_food_db: (match, score) pairs sorted by score, highest first
SearchResults ==
    UNION {{[i \in 1..n |-> [name |-> CandidateNames[i], score |-> score[i]]]
            : score \in {s \in [1..n -> Scores] :
                            \A i \in 1..n, j \in 1..n : i < j => s[i] >= s[j]}}
           : n \in 0..MaxCandidates}

\* results[:k]
Top(results, k) == SubSeq(results, 1, IF Len(results) < k THEN Len(results) ELSE k)

\* agents.py AGENT_CONFIGS
AGENT_CONFIGS == {"food_extraction", "nutrition_calculator", "clarification"}

\* agents.py get_agent: raises ValueError for a type without a config
get_agent(agent_type) ==
    IF agent_type \in AGENT_CONFIGS
    THEN [raised |-> FALSE, error |-> None]
    ELSE [raised |-> TRUE, error |-> "ValueError"]

\* the answers the specificity agent is documented to return
SpecificityAnswers == {"exact_match", "needs_clarification", "needs_smart_agent"}

\* _determine_specificity_with_llm: get_agent("specificity"), then the
\* agent's answer
determine_specificity_with_llm(answer) ==
    LET agent == get_agent("specificity")
    IN  IF agent.raised THEN [raised |-> TRUE, error |-> agent.error, value |-> None]
        ELSE [raised |-> FALSE, error |-> None, value |-> answer]

\* the value of _search_single_food_item, or the exception it raises
SearchItemResult(raised, category, reason, query, match, options) ==
    [raised |-> raised, category |-> category, reason |-> reason,
     query |-> query, match |-> match, options |-> options]

NoSearchItemResult == SearchItemResult(FALSE, "", "", "", None, <<>>)

create_exact_match_result(query, search_result) ==
    SearchItemResult(FALSE, "exact_match", "", query, search_result.name, <<>>)

\* options are "name (score: N)" strings of search_results[:5]
create_clarification_result(query, search_results) ==
    SearchItemResult(FALSE, "needs_clarification", "", query, None,
                     Top(search_results, 5))

create_smart_agent_result(query, search_results) ==
    SearchItemResult(FALSE, "needs_smart_agent", "user_input_more_specific", query,
                     None, Top(search_results, 5))

create_no_match_result(query, reason) ==
    SearchItemResult(FALSE, "no_match", reason, query, None, <<>>)

\* _search_single_food_item after search_food_db returned, up to the await
\* of _determine_specificity_with_llm
after_search_food_db(query, search_results) ==
    IF Len(search_results) = 0 THEN create_no_match_result(query, "no_database_matches")
    ELSE IF Len(search_results) = 1 /\ search_results[1].score >= 85
    THEN create_exact_match_result(query, search_results[1])
    ELSE IF Len(search_results) > 1 THEN NoSearchItemResult
    ELSE create_no_match_result(query, "low_confidence")

\* _search_single_food_item after _determine_specificity_with_llm
after_specificity(query, search_results, specificity_result) ==
    IF specificity_result.raised
    THEN SearchItemResult(TRUE, "", specificity_result.error, query, None, <<>>)
    ELSE IF specificity_result.value = "needs_smart_agent"
    THEN create_smart_agent_result(query, search_results)
    ELSE IF specificity_result.value = "exact_match"
    THEN create_exact_match_result(query, search_results[1])
    ELSE create_clarification_result(query, search_results)

NoSearch == [food_item |-> [name |-> "", local_name |-> None],
             search_results |-> <<>>, answer |-> None,
             result |-> NoSearchItemResult]

InitSearch ==
    /\ store = [session_id \in SessionIds |-> Absent]
    /\ store0 = store
    /\ pc = [c \in Calls |-> "idle"]
    /\ req = [c \in Calls |-> NoRequest]
    /\ session_state = [c \in Calls |-> initial_state]
    /\ inflight = [c \in Calls |-> NoSearch]
    /\ events = [c \in Calls |-> <<>>]
    /\ sse = [c \in Calls |-> <<>>]
    /\ hist = [c \in Calls |-> NoHist]
    /\ ncalls = 0
    /\ now = 0

\* _search_single_food_item from its call to the await of search_food_db
SearchSingleFoodItem(c) ==
    /\ pc[c] = "idle"
    /\ ncalls < MaxCalls
    /\ \E food_item \in FoodItems :
          LET query == query_of(food_item)
          IN  /\ inflight' = [inflight EXCEPT ![c] =
                    [NoSearch EXCEPT
                        !.food_item = food_item,
                        !.result = IF query = ""
                                   THEN create_no_match_result(query, "empty_query")
                                   ELSE NoSearchItemResult]]
              /\ pc' = [pc EXCEPT ![c] = IF query = "" THEN "done" ELSE "search_food_db"]
    /\ req' = [req EXCEPT ![c] = [op |-> "_search_single_food_item",
                                  session_id |-> "", user_message |-> ""]]
    /\ ncalls' = ncalls + 1
    /\ UNCHANGED <<now, store, store0, session_state, events, sse, hist>>

\* search_food_db returns its candidates
SearchFoodDbReturns(c) ==
    /\ pc[c] = "search_food_db"
    /\ \E search_results \in SearchResults :
          /\ inflight' = [inflight EXCEPT
                ![c].search_results = search_results,
                ![c].result = after_search_food_db(query_of(inflight[c].food_item),
                                                   search_results)]
          /\ pc' = [pc EXCEPT ![c] = IF Len(search_results) > 1
                                     THEN "specificity" ELSE "done"]
    /\ UNCHANGED <<now, store, store0, req, session_state, events, sse, hist, ncalls>>

\* _determine_specificity_with_llm returns or raises
SpecificityReturns(c) ==
    /\ pc[c] = "specificity"
    /\ \E answer \in SpecificityAnswers :
          inflight' = [inflight EXCEPT
                ![c].answer = answer,
                ![c].result = after_specificity(query_of(inflight[c].food_item),
                                                inflight[c].search_results,
                                                determine_specificity_with_llm(answer))]
    /\ pc' = [pc EXCEPT ![c] = "done"]
    /\ UNCHANGED <<now, store, store0, req, session_state, events, sse, hist, ncalls>>

\* the caller takes the result
SearchItemReturn(c) ==
    /\ pc[c] = "done"
    /\ pc' = [pc EXCEPT ![c] = "idle"]
    /\ req' = [req EXCEPT ![c] = NoRequest]
    /\ inflight' = [inflight EXCEPT ![c] = NoSearch]
    /\ UNCHANGED <<now, store, store0, session_state, events, sse, hist, ncalls>>

NextSearch ==
    \E c \in Handlers :
        \/ SearchSingleFoodItem(c)
        \/ SearchFoodDbReturns(c)
        \/ SpecificityReturns(c)
        \/ SearchItemReturn(c)

SpecSearch == InitSearch /\ [][NextSearch]_vars

SearchItemDone(c) == pc[c] = "done" /\ req[c].op = "_search_single_food_item"

\* C22: _search_single_food_item classifies every item by the sequential
\* decision on the trimmed query (local name, else canonical name): empty
\* is no_match(empty_query); otherwise no candidate is
\* no_match(no_database_matches), one candidate scoring at least 85 is an
\* exact match with it, one candidate below 85 is no_match(low_confidence),
\* and several candidates give the outcome the disambiguation answer names
C22_ClassifiedBySequentialDecision ==
    \A c \in Calls :
        SearchItemDone(c)
        => LET result == inflight[c].result
               query == Strip(query_of(inflight[c].food_item))
               search_results == inflight[c].search_results
               answer == inflight[c].answer
           IN  /\ ~result.raised
               /\ query = ""
                  => result.category = "no_match" /\ result.reason = "empty_query"
               /\ query # "" /\ Len(search_results) = 0
                  => result.category = "no_match" /\ result.reason = "no_database_matches"
               /\ query # "" /\ Len(search_results) = 1 /\ search_results[1].score >= 85
                  => result.category = "exact_match" /\ result.match = search_results[1].name
               /\ query # "" /\ Len(search_results) = 1 /\ search_results[1].score < 85
                  => result.category = "no_match" /\ result.reason = "low_confidence"
               /\ query # "" /\ Len(search_results) > 1
                  => CASE answer = "exact_match"
                            -> result.category = "exact_match"
                               /\ result.match = search_results[1].name
                       [] answer = "needs_clarification"
                            -> result.category = "needs_clarification"
                       [] OTHER -> result.category = "needs_smart_agent"


\* the candidate names of a list of search results
NamesOf(results) == [i \in DOMAIN results |-> results[i].name]

\* C23: when search_food_db returns several candidates and the
\* disambiguation answer is needs_clarification, the item's outcome is
\* needs_clarification and its options are the candidates in rank order,
\* the first five of them when there are more
C23_ClarificationOffersTopFive ==
    \A c \in Calls :
        /\ SearchItemDone(c)
        /\ Len(inflight[c].search_results) > 1
        /\ inflight[c].answer = "needs_clarification"
        => LET result == inflight[c].result
               search_results == inflight[c].search_results
           IN  /\ ~result.raised
               /\ result.category = "needs_clarification"
               /\ NamesOf(result.options) = NamesOf(Top(search_results, 5))


\* ------------------------------------------------------ unmatched foods
\* the elements of a sequence
Range(seq) == {seq[i] : i \in DOMAIN seq}

\* _convert_to_daily_meal_data: the foods handed to the advisor are the
\* search result's foods
convert_to_daily_meal_data(search_result) == Range(search_result.foods)

\* the unmatched foods the terminal event of a call hands to the caller:
\* needs_more_clarification carries search_result.content, advice_provided
\* carries foods_analyzed and nutrition_summary only
ReturnedUnmatched(c) ==
    IF LastEvent(c).code = "needs_more_clarification"
       /\ inflight[c].search_result.kind = "FoodSearchResult"
    THEN Range(inflight[c].search_result.unmatched_foods)
    ELSE {}

\* C24: a food the search left unmatched is not handed to the advisor, is
\* not reported among the analysed foods, and is in the unmatched list the
\* caller receives
C24_UnmatchedExcludedAndReported ==
    \A c \in Calls :
        /\ StreamDone(c)
        /\ LastEvent(c).event = "done"
        /\ inflight[c].search_result.kind = "FoodSearchResult"
        => \A name \in Range(inflight[c].search_result.unmatched_foods) :
              /\ name \notin convert_to_daily_meal_data(inflight[c].search_result)
              /\ name \notin Range(LastEvent(c).foods_analyzed)
              /\ name \in ReturnedUnmatched(c)


\* --------------------------------------- app_sessions with its timestamps
\* In SpecRows a row of store is the whole AppSession: session_data with
\* the created_at and updated_at columns, which func.now() fills from the
\* database clock.
MaxClock == 2

Row(session_data, created_at, updated_at) ==
    [session_data |-> session_data, created_at |-> created_at,
     updated_at |-> updated_at]

\* the session_data column of every row
Documents(rows) ==
    [session_id \in DOMAIN rows |->
        IF rows[session_id] = Absent THEN Absent ELSE rows[session_id].session_data]

\* a state of a session that has been advised
AdvisedState ==
    [initial_state EXCEPT
        !.current_state = ADVISED,
        !.extracted_foods = <<[name |-> FoodNames[1], needs_clarification |-> FALSE]>>,
        !.advisor_recommendations = "formatted analysis"]

\* the states save_session_state is called with
RowStates == {initial_state, AdvisedState}

\* save_session_state on the rows at time t: an INSERT takes both
\* timestamps from the server default; the flush of an existing row emits
\* an UPDATE, and with it onupdate=func.now(), only when session_data or
\* session_type differ from the loaded values; a failing commit is rolled
\* back and False is returned
save_row(rows, session_id, state, t, commit_ok) ==
    LET doc == save_session_state(Documents(rows), session_id, state)[session_id]
        row == rows[session_id]
    IN  IF ~commit_ok THEN [ok |-> FALSE, table |-> rows]
        ELSE IF row = Absent
        THEN [ok |-> TRUE, table |-> [rows EXCEPT ![session_id] = Row(doc, t, t)]]
        ELSE [ok |-> TRUE,
              table |-> [rows EXCEPT ![session_id] =
                            Row(doc, row.created_at,
                                IF doc = row.session_data THEN row.updated_at ELSE t)]]

\* create_initial_session on the rows: raises when the save failed
create_initial_row(rows, session_id, t, commit_ok) ==
    LET saved == save_row(rows, session_id, initial_state, t, commit_ok)
    IN  [raised |-> ~saved.ok, state |-> initial_state, table |-> saved.table]

\* get_or_create_session on the rows
get_or_create_row(rows, session_id, t, commit_ok) ==
    LET existing_state == get_session_state(Documents(rows), session_id)
    IN  IF existing_state.raised
        THEN [raised |-> TRUE, state |-> initial_state, table |-> rows]
        ELSE IF existing_state.found
        THEN [raised |-> FALSE, state |-> existing_state.state, table |-> rows]
        ELSE create_initial_row(rows, session_id, t, commit_ok)

\* delete_session that reports success without deleting
delete_session_keeping_row(rows, session_id, commit_ok) ==
    [ok |-> commit_ok, table |-> rows]

\* delete_session: deletes the row if there is one; True unless the
\* database raised
delete_session(rows, session_id, commit_ok) ==
    IF commit_ok
    THEN [ok |-> TRUE, table |-> [rows EXCEPT ![session_id] = Absent]]
    ELSE [ok |-> FALSE, table |-> rows]

\* SessionRepository.reset_session on the rows
reset_row(rows, session_id, t, commit_ok) ==
    create_initial_row(rows, session_id, t, commit_ok)

\* the entry list_sessions builds for a row
SessionSummary(rows, session_id) ==
    [session_id |-> session_id,
     created_at |-> rows[session_id].created_at,
     updated_at |-> rows[session_id].updated_at]

\* list_sessions: the rows ORDER BY updated_at DESC; rows with equal
\* updated_at come in any order
list_sessions(rows) ==
    LET ids == {session_id \in DOMAIN rows : rows[session_id] # Absent}
    IN  {[i \in DOMAIN order |-> SessionSummary(rows, order[i])] :
            order \in {o \in [1..Cardinality(ids) -> ids] :
                          /\ \A i, j \in DOMAIN o : i # j => o[i] # o[j]
                          /\ \A i, j \in DOMAIN o :
                                i < j => rows[o[i]].updated_at >= rows[o[j]].updated_at}}

\* get_session_info: None when there is no row, when session_data is
\* empty, and on JSONDecodeError
get_session_info(rows, session_id) ==
    LET row == rows[session_id]
    IN  IF row = Absent \/ row.session_data \in Undecodable
        THEN [found |-> FALSE, raised |-> FALSE]
        ELSE [found |-> TRUE, raised |-> FALSE,
              session_id |-> session_id,
              current_state |-> JsonLoads(row.session_data).current_state,
              created_at |-> row.created_at,
              updated_at |-> row.updated_at]

\* the rows a process can find: written by save_session_state at some
\* time up to now, or left undecodable by another writer of the table
StartRows ==
    {Absent} \cup
    {Row(doc, created_at, updated_at) :
        doc \in {JsonDumps(st) : st \in RowStates} \cup Undecodable,
        created_at \in 0..1, updated_at \in 0..1}

NoRowCall == [before |-> [session_id \in SessionIds |-> Absent],
              at |-> 0, state |-> initial_state, result |-> [ok |-> FALSE]]

InitRows ==
    /\ store \in [SessionIds -> {r \in StartRows :
                                    r # Absent => r.created_at <= r.updated_at}]
    /\ store0 = store
    /\ pc = [c \in Calls |-> "idle"]
    /\ req = [c \in Calls |-> NoRequest]
    /\ session_state = [c \in Calls |-> initial_state]
    /\ inflight = [c \in Calls |-> NoRowCall]
    /\ events = [c \in Calls |-> <<>>]
    /\ sse = [c \in Calls |-> <<>>]
    /\ hist = [c \in Calls |-> NoHist]
    /\ ncalls = 0
    /\ now = 1

\* one call of `op` on session_id that leaves the rows `table` and returns
\* `result`
RowCall(c, op, session_id, state, table, result) ==
    /\ pc[c] = "idle"
    /\ ncalls < MaxCalls
    /\ store' = table
    /\ req' = [req EXCEPT ![c] = [op |-> op, session_id |-> session_id,
                                  user_message |-> ""]]
    /\ inflight' = [inflight EXCEPT ![c] =
          [before |-> store, at |-> now, state |-> state, result |-> result]]
    /\ pc' = [pc EXCEPT ![c] = "done"]
    /\ ncalls' = ncalls + 1
    /\ UNCHANGED <<now, store0, session_state, events, sse, hist>>

\* time passes
Tick ==
    /\ now < MaxClock
    /\ now' = now + 1
    /\ UNCHANGED <<store, store0, pc, req, session_state, inflight, events, sse,
                   hist, ncalls>>

GetSessionState(c) ==
    /\ pc[c] = "idle"
    /\ \E session_id \in SessionIds :
           RowCall(c, "get_session_state", session_id, initial_state, store,
                   get_session_state(Documents(store), session_id))

GetSessionInfo(c) ==
    /\ pc[c] = "idle"
    /\ \E session_id \in SessionIds :
           RowCall(c, "get_session_info", session_id, initial_state, store,
                   get_session_info(store, session_id))

ListSessions(c) ==
    /\ pc[c] = "idle"
    /\ \E sessions \in list_sessions(store) :
           RowCall(c, "list_sessions", "", initial_state, store,
                   [ok |-> TRUE, sessions |-> sessions])

SaveSessionState(c) ==
    /\ pc[c] = "idle"
    /\ \E session_id \in SessionIds, state \in RowStates, commit_ok \in BOOLEAN :
           LET saved == save_row(store, session_id, state, now, commit_ok)
           IN  RowCall(c, "save_session_state", session_id, state, saved.table,
                       [ok |-> saved.ok])

GetOrCreateSession(c) ==
    /\ pc[c] = "idle"
    /\ \E session_id \in SessionIds, commit_ok \in BOOLEAN :
           LET goc == get_or_create_row(store, session_id, now, commit_ok)
           IN  RowCall(c, "get_or_create_session", session_id, initial_state, goc.table,
                       [ok |-> ~goc.raised, raised |-> goc.raised, state |-> goc.state])

DeleteSession(c) ==
    /\ pc[c] = "idle"
    /\ \E session_id \in SessionIds, commit_ok \in BOOLEAN :
           LET deleted == delete_session(store, session_id, commit_ok)
           IN  RowCall(c, "delete_session", session_id, initial_state, deleted.table,
                       [ok |-> deleted.ok])

ResetSession(c) ==
    /\ pc[c] = "idle"
    /\ \E session_id \in SessionIds, commit_ok \in BOOLEAN :
           LET reset == reset_row(store, session_id, now, commit_ok)
           IN  RowCall(c, "reset_session", session_id, initial_state, reset.table,
                       [ok |-> ~reset.raised, raised |-> reset.raised,
                        state |-> reset.state])

\* sessions.py delete_session: DELETE /{session_id} calls
\* MainWorkflow.reset_session and answers success unless it raised
DeleteEndpoint(c) ==
    /\ pc[c] = "idle"
    /\ \E session_id \in SessionIds, commit_ok \in BOOLEAN :
           LET reset == reset_row(store, session_id, now, commit_ok)
           IN  RowCall(c, "DELETE /{session_id}", session_id, initial_state, reset.table,
                       [ok |-> ~reset.raised])

\* the caller takes the result
RowReturn(c) ==
    /\ pc[c] = "done"
    /\ pc' = [pc EXCEPT ![c] = "idle"]
    /\ req' = [req EXCEPT ![c] = NoRequest]
    /\ inflight' = [inflight EXCEPT ![c] = NoRowCall]
    /\ UNCHANGED <<now, store, store0, session_state, events, sse, hist, ncalls>>

NextRows ==
    \/ Tick
    \/ \E c \in Handlers :
          \/ GetSessionState(c)
          \/ GetSessionInfo(c)
          \/ ListSessions(c)
          \/ SaveSessionState(c)
          \/ GetOrCreateSession(c)
          \/ DeleteSession(c)
          \/ ResetSession(c)
          \/ DeleteEndpoint(c)
          \/ RowReturn(c)

SpecRows == InitRows /\ [][NextRows]_vars

RowCallDone(c, op) == pc[c] = "done" /\ req[c].op = op

\* C25: after delete_session returns True the id has no row
\* (get_session_state and get_session_info return None, no listing has
\* it) and every other row is as it was; for an id without a row it
\* returns True and changes nothing
C25_DeleteRemovesOnlyThatRow ==
    \A c \in Calls :
        RowCallDone(c, "delete_session") /\ inflight[c].result.ok
        => LET session_id == req[c].session_id
               before == inflight[c].before
           IN  /\ store[session_id] = Absent
               /\ ~get_session_state(Documents(store), session_id).found
               /\ ~get_session_info(store, session_id).found
               /\ \A sessions \in list_sessions(store) :
                     \A i \in DOMAIN sessions : sessions[i].session_id # session_id
               /\ \A other \in SessionIds \ {session_id} : store[other] = before[other]
               /\ before[session_id] = Absent => store = before

C25_Witness ==
    \E c \in Calls :
        /\ RowCallDone(c, "delete_session")
        /\ inflight[c].result.ok
        /\ inflight[c].before[req[c].session_id] # Absent
        /\ \E other \in SessionIds \ {req[c].session_id} : store[other] # Absent


\* C26: after DELETE /{session_id} answers success the id has no row,
\* get_session_info returns None for it and no listing has it
C26_DeleteEndpointRemovesRow ==
    \A c \in Calls :
        RowCallDone(c, "DELETE /{session_id}") /\ inflight[c].result.ok
        => LET session_id == req[c].session_id
           IN  /\ store[session_id] = Absent
               /\ ~get_session_info(store, session_id).found
               /\ \A sessions \in list_sessions(store) :
                     \A i \in DOMAIN sessions : sessions[i].session_id # session_id

\* C27: reset_session leaves the rows, timestamps included, and returns the
\* state that delete_session followed by get_or_create_session would,
\* started from the same rows at the same time
C27_ResetIsDeleteThenGetOrCreate ==
    \A c \in Calls :
        RowCallDone(c, "reset_session") /\ inflight[c].result.ok
        => LET session_id == req[c].session_id
               deleted == delete_session(inflight[c].before, session_id, TRUE)
               goc == get_or_create_row(deleted.table, session_id, inflight[c].at, TRUE)
           IN  /\ store = goc.table
               /\ inflight[c].result.state = goc.state

\* C28: list_sessions has one entry per stored id, most recently updated
\* first, and every save_session_state that returns True leaves the row's
\* updated_at at the time of the save
C28_ListedByLastSave ==
    \A c \in Calls :
        /\ RowCallDone(c, "list_sessions")
           => LET sessions == inflight[c].result.sessions
              IN  /\ \A session_id \in SessionIds :
                        Cardinality({i \in DOMAIN sessions :
                                        sessions[i].session_id = session_id})
                        = (IF store[session_id] = Absent THEN 0 ELSE 1)
                  /\ \A i, j \in DOMAIN sessions :
                        i < j => sessions[i].updated_at >= sessions[j].updated_at
        /\ RowCallDone(c, "save_session_state") /\ inflight[c].result.ok
           => store[req[c].session_id].updated_at = inflight[c].at

\* the row a call found for its session_id holds undecodable session_data
FoundUndecodable(c) ==
    /\ req[c].session_id \in SessionIds
    /\ inflight[c].before[req[c].session_id] # Absent
    /\ inflight[c].before[req[c].session_id].session_data \in Undecodable

\* C29: on a row whose session_data cannot be deserialized
\* get_session_state and get_session_info return None without raising, and
\* get_or_create_session returns the initial state and leaves it in the row
C29_UndecodableReadsAsAbsent ==
    \A c \in Calls :
        pc[c] = "done" /\ FoundUndecodable(c)
        => /\ req[c].op \in {"get_session_state", "get_session_info"}
              => ~inflight[c].result.raised /\ ~inflight[c].result.found
           /\ req[c].op = "get_or_create_session" /\ inflight[c].result.ok
              => /\ inflight[c].result.state = initial_state
                 /\ store[req[c].session_id].session_data = JsonDumps(initial_state)

C29_Witness ==
    \E c \in Calls :
        /\ RowCallDone(c, "get_or_create_session")
        /\ inflight[c].result.ok
        /\ inflight[c].before[req[c].session_id] # Absent
        /\ inflight[c].before[req[c].session_id].session_data = NotJson
        /\ store[req[c].session_id].session_data = JsonDumps(initial_state)


\* ------------------------------------------------ analyze_daily_nutrition
\* Floats are counted in tenths: 300.0 is 3000.
MealKeys == {"Breakfast", "Snack"}

\* a FoodItem of DailyMealData: calories of nutrition_per_100g, and
\* serving_size of standard_portions in grams (0: no standard_portions)
MealFoodItems == [calories : {100, 200}, serving_size : {0, 150}]

\* DailyMealData: the food items of each meal type
DailyMealData == [MealKeys -> {<<>>} \cup {<<food>> : food \in MealFoodItems}]

\* the floats of a NutritionSummary the agent returns; the schema asks for
\* floats and nothing more
AgentFloats == {0, 2000, 3000, 4000}

\* DailyNutritionAnalysis.summary: total_calories and the calories of
\* meals_breakdown
NutritionSummaries ==
    [total_calories : AgentFloats, meals_breakdown : [MealKeys -> AgentFloats]]

\* analyze_daily_nutrition: validates the meal data, sends it to the
\* advisor agent as JSON and returns run_output.content as it is
analyze_daily_nutrition(meal_data, run_output) == run_output.content

NoAnalysis == [meal_data |-> [meal \in MealKeys |-> <<>>],
               analysis |-> [total_calories |-> 0,
                             meals_breakdown |-> [meal \in MealKeys |-> 0]]]

InitAdvice ==
    /\ store = [session_id \in SessionIds |-> Absent]
    /\ store0 = store
    /\ pc = [c \in Calls |-> "idle"]
    /\ req = [c \in Calls |-> NoRequest]
    /\ session_state = [c \in Calls |-> initial_state]
    /\ inflight = [c \in Calls |-> NoAnalysis]
    /\ events = [c \in Calls |-> <<>>]
    /\ sse = [c \in Calls |-> <<>>]
    /\ hist = [c \in Calls |-> NoHist]
    /\ ncalls = 0
    /\ now = 0

\* analyze_daily_nutrition up to agent.run
AnalyzeDailyNutrition(c) ==
    /\ pc[c] = "idle"
    /\ ncalls < MaxCalls
    /\ \E meal_data \in DailyMealData :
          inflight' = [inflight EXCEPT ![c] = [NoAnalysis EXCEPT !.meal_data = meal_data]]
    /\ req' = [req EXCEPT ![c] = [op |-> "analyze_daily_nutrition",
                                  session_id |-> "", user_message |-> ""]]
    /\ pc' = [pc EXCEPT ![c] = "agent_run"]
    /\ ncalls' = ncalls + 1
    /\ UNCHANGED <<now, store, store0, session_state, events, sse, hist>>

\* agent.run returns the advisor's structured output
AdvisorAgentReturns(c) ==
    /\ pc[c] = "agent_run"
    /\ \E summary \in NutritionSummaries :
          inflight' = [inflight EXCEPT ![c].analysis =
                          analyze_daily_nutrition(inflight[c].meal_data,
                                                  [content |-> summary])]
    /\ pc' = [pc EXCEPT ![c] = "done"]
    /\ UNCHANGED <<now, store, store0, req, session_state, events, sse, hist, ncalls>>

\* the caller takes the analysis
AnalysisReturn(c) ==
    /\ pc[c] = "done"
    /\ pc' = [pc EXCEPT ![c] = "idle"]
    /\ req' = [req EXCEPT ![c] = NoRequest]
    /\ inflight' = [inflight EXCEPT ![c] = NoAnalysis]
    /\ UNCHANGED <<now, store, store0, session_state, events, sse, hist, ncalls>>

NextAdvice ==
    \E c \in Handlers :
        \/ AnalyzeDailyNutrition(c)
        \/ AdvisorAgentReturns(c)
        \/ AnalysisReturn(c)

SpecAdvice == InitAdvice /\ [][NextAdvice]_vars

\* calories per 100 g scaled by serving_size / 100, in tenths
ScaledCalories(food) == (food.calories * food.serving_size * 10) \div 100

RECURSIVE SumCalories(_)
SumCalories(foods) ==
    IF foods = <<>> THEN 0 ELSE ScaledCalories(foods[1]) + SumCalories(Tail(foods))

\* every food of the meal data has a portion in grams
AllPortionsGiven(meal_data) ==
    \A meal \in MealKeys :
        \A i \in DOMAIN meal_data[meal] : meal_data[meal][i].serving_size # 0

\* C30: for meal data with a food, whose foods all have a portion, the
\* analysis' calories of every meal type are the sum over its foods of calories per
\* 100 g times portion / 100, and total_calories is the sum over all meal
\* types (200 kcal per 100 g at 150 g gives exactly 300.0)
C30_AggregationScalesAndSums ==
    \A c \in Calls :
        /\ pc[c] = "done"
        /\ req[c].op = "analyze_daily_nutrition"
        /\ AllPortionsGiven(inflight[c].meal_data)
        /\ \E meal \in MealKeys : inflight[c].meal_data[meal] # <<>>
        => LET meal_data == inflight[c].meal_data
               summary == inflight[c].analysis
           IN  /\ \A meal \in MealKeys :
                     summary.meals_breakdown[meal] = SumCalories(meal_data[meal])
               /\ summary.total_calories
                  = SumCalories(meal_data["Breakfast"]) + SumCalories(meal_data["Snack"])


\* ------------------------------------------------- the caller goes away
\* The chat endpoint's client disconnects: the handler is cancelled where
\* it is suspended. CancelledError and GeneratorExit are not Exceptions, so
\* no except clause of the workflow runs and nothing more is saved.
cancelled(session_state_) ==
    [Outcome("done", session_state_, <<>>, <<>>) EXCEPT !.failed = "aborted"]

\* cancelled at the await of the search agent or of the advisor call
AbortAtAwait(c) ==
    /\ pc[c] \in {"search", "advisor_call"}
    /\ Apply(c, req[c].session_id, cancelled(session_state[c]), hist[c])
    /\ UNCHANGED <<now, store0, req, inflight, ncalls>>

\* the stream delivers a run_content chunk and the caller closes the
\* generator at the yield of its token
AbortAtToken(c) ==
    /\ pc[c] = "streaming"
    /\ inflight[c].parts < MaxTokens
    /\ inflight' = [inflight EXCEPT ![c].parts = @ + 1]
    /\ LET o == advisor_content_chunk(session_state[c])
       IN  Apply(c, req[c].session_id,
                 [cancelled(o.state) EXCEPT !.saves = o.saves, !.events = o.events],
                 hist[c])
    /\ UNCHANGED <<now, store0, req, ncalls>>

NextAbort ==
    \/ Next
    \/ \E c \in Handlers : AbortAtAwait(c)
    \/ \E c \in Handlers : AbortAtToken(c)

SpecAbort == Init /\ [][NextAbort]_vars

\* the document persisted for the session of call c
Persisted(c) == store[req[c].session_id]

\* C31: while the search runs the persisted stage is already ADVISING;
\* while the advice is awaited or streamed it is still ADVISING with no
\* analysis; ADVISED is written only by a call that ends with
\* advice_provided; and a call whose advice failed or that the caller
\* aborted leaves ADVISING with no analysis
C31_AdvisedOnlyAfterWholeStream ==
    \A c \in Calls :
        /\ pc[c] \in {"search", "advisor_call", "streaming"}
           => /\ Persisted(c) # Absent
              /\ Persisted(c).current_state = ADVISING
              /\ Persisted(c).advisor_recommendations = JsonNull
        /\ ADVISED \in WrittenStages(c)
           => /\ Finished(c)
              /\ LastEvent(c).event = "done"
              /\ LastEvent(c).code = "advice_provided"
        /\ Finished(c) /\ hist[c].failed \in {"advice", "aborted"}
           => /\ EndStage(c) = ADVISING
              /\ hist[c].at_end.advisor_recommendations = JsonNull

\* C31 witness: the caller aborted after a token had been emitted
C31_Witness ==
    \E c \in Calls :
        /\ Finished(c)
        /\ hist[c].failed = "aborted"
        /\ events[c] # <<>>
        /\ IsToken(LastEvent(c))
        /\ EndStage(c) = ADVISING


\* ------------------------------------------------ pending clarifications
\* C32: every document a call writes has the stage CLARIFYING exactly when
\* its pending_clarifications is not empty
C32_ClarifyingIffPending ==
    \A c \in Calls :
        \A i \in DOMAIN hist[c].writes :
            (hist[c].writes[i].current_state = CLARIFYING)
            <=> (hist[c].writes[i].pending_clarifications # <<>>)


\* ---------------------------------------------------------------------
\* The session endpoints (app/api/v1/endpoints/sessions.py) over the rows
\* ---------------------------------------------------------------------

\* SessionState(state_str.lower()) inside try/except ValueError: a value
\* of the enumeration is itself (the stored stages are the lower-case
\* enumeration values), anything else becomes SessionState.INITIAL
parse_current_state(state_str) ==
    IF state_str \in {INITIAL, CLARIFYING, ADVISING, ADVISED} THEN state_str ELSE INITIAL

\* dict.get("current_state", "initial") on a dictionary given as a record
current_state_or_default(data) ==
    IF "current_state" \in DOMAIN data THEN data.current_state ELSE "initial"

\* reset_session of the endpoints that resets whatever the flag says
reset_session_unconfirmed(rows, session_id, confirm, t, commit_ok) ==
    LET reset == reset_row(rows, session_id, t, commit_ok)
    IN  IF reset.raised
        THEN [status |-> 500, table |-> reset.table]
        ELSE [status |-> 200, table |-> reset.table]

\* POST /{session_id}/reset: 400 before anything is done when the flag is
\* false; otherwise MainWorkflow.reset_session, 500 when it raised and the
\* success response when it did not
reset_session_endpoint(rows, session_id, confirm, t, commit_ok) ==
    IF ~confirm
    THEN [status |-> 400, table |-> rows]
    ELSE LET reset == reset_row(rows, session_id, t, commit_ok)
         IN  IF reset.raised
             THEN [status |-> 500, table |-> reset.table]
             ELSE [status |-> 200, table |-> reset.table]

\* GET /{session_id}: 404 when get_session_info returned None, else the
\* stage of the returned dictionary
GetInfoEndpoint(c) ==
    /\ pc[c] = "idle"
    /\ \E session_id \in SessionIds :
           LET session_info == get_session_info(store, session_id)
           IN  RowCall(c, "GET /{session_id}", session_id, initial_state, store,
                       IF ~session_info.found
                       THEN [status |-> 404]
                       ELSE [status |-> 200,
                             session_id |-> session_id,
                             current_state |->
                                 parse_current_state(
                                     current_state_or_default(session_info)),
                             created_at |-> session_info.created_at,
                             updated_at |-> session_info.updated_at])

\* GET /{session_id}/state: MainWorkflow.get_session_state is
\* get_or_create_session, whose dictionary is never empty, so the 404
\* branch is not taken; 500 when it raised
GetStateEndpoint(c) ==
    /\ pc[c] = "idle"
    /\ \E session_id \in SessionIds, commit_ok \in BOOLEAN :
           LET state_data == get_or_create_row(store, session_id, now, commit_ok)
           IN  RowCall(c, "GET /{session_id}/state", session_id, initial_state,
                       state_data.table,
                       IF state_data.raised
                       THEN [status |-> 500]
                       ELSE [status |-> 200,
                             session_id |-> session_id,
                             current_state |->
                                 parse_current_state(
                                     current_state_or_default(state_data.state)),
                             created_at |-> None,
                             updated_at |-> None])

\* GET "" : one SessionInfo for each entry of list_sessions
ListEndpoint(c) ==
    /\ pc[c] = "idle"
    /\ \E sessions_data \in list_sessions(store) :
           RowCall(c, "GET /sessions", "", initial_state, store,
                   [status |-> 200,
                    sessions |->
                       [i \in DOMAIN sessions_data |->
                           [session_id |-> sessions_data[i].session_id,
                            current_state |->
                                parse_current_state(
                                    current_state_or_default(sessions_data[i])),
                            created_at |-> sessions_data[i].created_at,
                            updated_at |-> sessions_data[i].updated_at]]])

ResetEndpoint(c) ==
    /\ pc[c] = "idle"
    /\ \E session_id \in SessionIds, confirm \in BOOLEAN, commit_ok \in BOOLEAN :
           LET response == reset_session_endpoint(store, session_id, confirm, now,
                                                  commit_ok)
           IN  RowCall(c, "POST /{session_id}/reset", session_id,
                       [confirm |-> confirm, commit_ok |-> commit_ok],
                       response.table, [status |-> response.status])

NextEndpoints ==
    \/ Tick
    \/ \E c \in Handlers :
          \/ GetInfoEndpoint(c)
          \/ GetStateEndpoint(c)
          \/ ListEndpoint(c)
          \/ ResetEndpoint(c)
          \/ SaveSessionState(c)
          \/ RowReturn(c)

SpecEndpoints == InitRows /\ [][NextEndpoints]_vars

\* the persisted stage of a row that holds a session document
Decodable(row) == row # Absent /\ row.session_data \notin Undecodable
StageOf(row) == JsonLoads(row.session_data).current_state

\* C33: GET /{session_id}/state for a session id with no record reports
\* "not found" and leaves the store as it was; reading a state never
\* creates a record.
C33_ReadingStateCreatesNothing ==
    \A c \in Calls :
        (RowCallDone(c, "GET /{session_id}/state")
            /\ inflight[c].before[req[c].session_id] = Absent)
        => /\ inflight[c].result.status = 404
           /\ store = inflight[c].before


\* C34: the current_state an endpoint (get info, get state, list) reports
\* for a stored session equals the stage persisted for it at the time of
\* the request.
C34_ReportedStageIsPersisted ==
    \A c \in Calls :
        LET call == inflight[c]
        IN  /\ (RowCallDone(c, "GET /{session_id}") \/ RowCallDone(c, "GET /{session_id}/state"))
               /\ call.result.status = 200
               /\ Decodable(call.before[req[c].session_id])
               => call.result.current_state = StageOf(call.before[req[c].session_id])
            /\ RowCallDone(c, "GET /sessions")
               => \A i \in DOMAIN call.result.sessions :
                     LET listed == call.result.sessions[i]
                     IN  Decodable(call.before[listed.session_id])
                         => listed.current_state = StageOf(call.before[listed.session_id])


ResetEndpointDone(c) == RowCallDone(c, "POST /{session_id}/reset")

\* C35: a reset request whose confirmation flag is false is answered with
\* an error and leaves the rows as they were; with the flag true it
\* succeeds whether or not the session had a row (unless the database
\* fails, which leaves the rows as they were), the session then holds the
\* initial document and no other row has changed, and resetting it once
\* more gives the same rows and the same answer.
C35_ResetNeedsConfirmationAndIsIdempotent ==
    \A c \in Calls :
        ResetEndpointDone(c) =>
            LET call == inflight[c]
                session_id == req[c].session_id
            IN  /\ ~call.state.confirm
                   => /\ call.result.status = 400
                      /\ store = call.before
                /\ call.state.confirm
                   => /\ call.result.status = IF call.state.commit_ok THEN 200 ELSE 500
                      /\ call.result.status = 500 => store = call.before
                      /\ call.result.status = 200
                         => /\ store[session_id] # Absent
                            /\ store[session_id].session_data = JsonDumps(initial_state)
                            /\ \A other \in SessionIds \ {session_id} :
                                  store[other] = call.before[other]
                            /\ \A t \in 0..MaxClock :
                                  reset_session_endpoint(store, session_id, TRUE, t, TRUE)
                                      = [status |-> 200, table |-> store]

\* a reset without confirmation of a session that has been advised
C35_Witness ==
    \E c \in Calls :
        /\ ResetEndpointDone(c)
        /\ ~inflight[c].state.confirm
        /\ Decodable(inflight[c].before[req[c].session_id])
        /\ StageOf(inflight[c].before[req[c].session_id]) = ADVISED
        /\ inflight[c].result.status = 400


\* ---------------------------------------------------------------------
\* Batches of extracted items (agents/food_search.py process_user_food_input,
\* agents/main_workflow.py main_workflow_async)
\* ---------------------------------------------------------------------

MaxBatchCandidates == 2

\* one extracted item together with what search_food_db returns for it and
\* what the specificity agent would answer
BatchItems ==
    [food_item : {f \in FoodItems : f.name = ""},
     search_results : {r \in SearchResults : Len(r) <= MaxBatchCandidates},
     answer : SpecificityAnswers]

Batches == UNION {[1..n -> BatchItems] : n \in 0..MaxFoods}

\* _search_single_food_item from call to return
search_single_food_item(item) ==
    LET query == query_of(item.food_item)
    IN  IF query = "" THEN create_no_match_result(query, "empty_query")
        ELSE IF Len(item.search_results) > 1
        THEN after_specificity(query, item.search_results,
                               determine_specificity_with_llm(item.answer))
        ELSE after_search_food_db(query, item.search_results)

\* [result for result in search_results if result["category"] == category];
\* request_id, a fresh uuid4 in each result, is the item's position
of_category(search_results, category) ==
    SelectSeq([i \in DOMAIN search_results |->
                  [request_id |-> i, category |-> search_results[i].category]],
              LAMBDA result : result.category = category)

\* process_user_food_input after the extraction: asyncio.gather raises
\* the first exception of its coroutines
process_user_food_input(foods) ==
    LET search_results == [i \in DOMAIN foods |-> search_single_food_item(foods[i])]
        exact_matches == of_category(search_results, "exact_match")
        needs_clarification == of_category(search_results, "needs_clarification")
        needs_smart_agent == of_category(search_results, "needs_smart_agent")
        no_matches == of_category(search_results, "no_match")
    IN  IF \E i \in DOMAIN search_results : search_results[i].raised
        THEN [raised |-> TRUE, lists |-> <<>>, total |-> 0, counts |-> <<>>]
        ELSE [raised |-> FALSE,
              lists |-> <<exact_matches, needs_clarification, needs_smart_agent,
                          no_matches>>,
              total |-> Len(foods),
              counts |-> <<Len(exact_matches), Len(needs_clarification),
                           Len(needs_smart_agent), Len(no_matches)>>]

\* os.getenv("THRESHOLD", 85): the int 85 when the variable is unset, a
\* str when it is set
ThresholdEnv == {"unset", "set"}

\* the list main_workflow_async appends an item to; "TypeError" when
\* score < os.getenv(...) compares an int with a str
main_workflow_list(item, threshold_env) ==
    LET query == Strip(query_of(item.food_item))
        num_results == Len(item.search_results)
    IN  IF query = "" THEN "skipped_items"
        ELSE IF num_results = 1
        THEN IF threshold_env = "set" THEN "TypeError"
             ELSE IF item.search_results[1].score < 85 THEN "skipped_items"
             ELSE "logged_items"
        ELSE IF num_results > 1 THEN "needs_clarification"
        ELSE "skipped_items"

\* main_workflow_async over food_items
main_workflow_async(food_items, threshold_env) ==
    LET placed == [i \in DOMAIN food_items |->
                      [request_id |-> i,
                       category |-> main_workflow_list(food_items[i], threshold_env)]]
        list(name) == SelectSeq(placed, LAMBDA p : p.category = name)
    IN  IF \E i \in DOMAIN placed : placed[i].category = "TypeError"
        THEN [raised |-> TRUE, lists |-> <<>>, total |-> 0, counts |-> <<>>]
        ELSE [raised |-> FALSE,
              lists |-> <<list("logged_items"), list("needs_clarification"),
                          list("skipped_items")>>,
              total |-> Len(food_items),
              counts |-> <<Len(list("logged_items")), Len(list("needs_clarification")),
                           Len(list("skipped_items"))>>]

NoBatch == [foods |-> <<>>, result |-> [raised |-> FALSE, lists |-> <<>>,
                                        total |-> 0, counts |-> <<>>]]

InitBatch ==
    /\ store = [session_id \in SessionIds |-> Absent]
    /\ store0 = store
    /\ pc = [c \in Calls |-> "idle"]
    /\ req = [c \in Calls |-> NoRequest]
    /\ session_state = [c \in Calls |-> initial_state]
    /\ inflight = [c \in Calls |-> NoBatch]
    /\ events = [c \in Calls |-> <<>>]
    /\ sse = [c \in Calls |-> <<>>]
    /\ hist = [c \in Calls |-> NoHist]
    /\ ncalls = 0
    /\ now = 0

BatchCall(c, op, foods, result) ==
    /\ ncalls < MaxCalls
    /\ req' = [req EXCEPT ![c] = [op |-> op, session_id |-> "", user_message |-> ""]]
    /\ inflight' = [inflight EXCEPT ![c] = [foods |-> foods, result |-> result]]
    /\ pc' = [pc EXCEPT ![c] = "done"]
    /\ ncalls' = ncalls + 1
    /\ UNCHANGED <<now, store, store0, session_state, events, sse, hist>>

ProcessUserFoodInput(c) ==
    /\ pc[c] = "idle"
    /\ \E foods \in Batches :
          BatchCall(c, "process_user_food_input", foods, process_user_food_input(foods))

MainWorkflowAsync(c) ==
    /\ pc[c] = "idle"
    /\ \E food_items \in Batches, threshold_env \in ThresholdEnv :
          BatchCall(c, "main_workflow_async", food_items,
                    main_workflow_async(food_items, threshold_env))

\* the caller takes the result
BatchReturn(c) ==
    /\ pc[c] = "done"
    /\ pc' = [pc EXCEPT ![c] = "idle"]
    /\ req' = [req EXCEPT ![c] = NoRequest]
    /\ inflight' = [inflight EXCEPT ![c] = NoBatch]
    /\ UNCHANGED <<now, store, store0, session_state, events, sse, hist, ncalls>>

NextBatch ==
    \E c \in Handlers :
        \/ ProcessUserFoodInput(c)
        \/ MainWorkflowAsync(c)
        \/ BatchReturn(c)

SpecBatch == InitBatch /\ [][NextBatch]_vars

\* how many times the item at position i occurs in the lists
Occurrences(lists, i) ==
    Cardinality({<<k, j>> \in (DOMAIN lists) \X (1..MaxFoods) :
                    j \in DOMAIN lists[k] /\ lists[k][j].request_id = i})

SumSeq(counts) ==
    IF counts = <<>> THEN 0
    ELSE IF Len(counts) = 3 THEN counts[1] + counts[2] + counts[3]
    ELSE counts[1] + counts[2] + counts[3] + counts[4]

\* C36: for every batch of extracted items, process_user_food_input and
\* main_workflow_async return with each item in exactly one of their
\* lists, whatever the disambiguation answers, and the summary counts sum
\* to the number of items.
C36_EachItemInExactlyOneList ==
    \A c \in Calls :
        (pc[c] = "done" /\ req[c].op \in {"process_user_food_input", "main_workflow_async"})
        => LET call == inflight[c]
           IN  /\ ~call.result.raised
               /\ \A i \in DOMAIN call.foods : Occurrences(call.result.lists, i) = 1
               /\ SumSeq(call.result.counts) = Len(call.foods)
               /\ call.result.total = Len(call.foods)


\* ---------------------------------------------------------------------
\* MainWorkflow._convert_to_daily_meal_data
\* ---------------------------------------------------------------------

MaxSearchFoods == 3

\* models/food.py MealType
MealType == {"breakfast", "lunch", "dinner", "snack"}

\* FoodSearchResultItem: meal_type is an Optional[MealType], portion_grams
\* an Optional[float] (0: None or 0.0, both falsy)
FoodSearchResultItems ==
    [name : {"Nasi Goreng", "bubur"},
     meal_type : MealType \cup {None},
     portion_grams : {0, 150}]

\* str.capitalize() on the strings of the model
Capitalize(s) ==
    CASE s = "breakfast" -> "Breakfast"
      [] s = "lunch" -> "Lunch"
      [] s = "dinner" -> "Dinner"
      [] s = "snack" -> "Snack"
      [] OTHER -> s

\* food_item.name.lower().replace(' ', '_')
FoodId(name) ==
    CASE name = "Nasi Goreng" -> "nasi_goreng"
      [] OTHER -> name

\* the FoodItem built for the advisor
AdvisorFoodItem(food_item) ==
    [id |-> FoodId(food_item.name),
     name |-> food_item.name,
     category |-> "other",
     serving_size |-> food_item.portion_grams]

\* meal_dict = {"Breakfast": [], "Lunch": [], "Dinner": [], "Snack": []}
EmptyMealDict ==
    [meal_key \in {"Breakfast", "Lunch", "Dinner", "Snack"} |-> <<>>]

\* one turn of the loop that puts foods without a meal type nowhere
convert_food_dropping(meal_dict, food_item) ==
    LET food == AdvisorFoodItem(food_item)
        meal_key == Capitalize(food_item.meal_type)
    IN  IF food_item.meal_type # None
        THEN IF meal_key \in DOMAIN meal_dict
             THEN [meal_dict EXCEPT ![meal_key] = Append(@, food)]
             ELSE [meal_dict EXCEPT !["Snack"] = Append(@, food)]
        ELSE meal_dict

\* one turn of the loop: the food is appended to the list of its
\* capitalised meal type, to Snack when that is no key or there is no
\* meal type
convert_food(meal_dict, food_item) ==
    LET food == AdvisorFoodItem(food_item)
        meal_key == Capitalize(food_item.meal_type)
    IN  IF food_item.meal_type # None
        THEN IF meal_key \in DOMAIN meal_dict
             THEN [meal_dict EXCEPT ![meal_key] = Append(@, food)]
             ELSE [meal_dict EXCEPT !["Snack"] = Append(@, food)]
        ELSE [meal_dict EXCEPT !["Snack"] = Append(@, food)]

\* the loop over search_result.foods, from the first food on
RECURSIVE convert_foods(_, _)
convert_foods(meal_dict, foods) ==
    IF foods = <<>> THEN meal_dict
    ELSE convert_foods(convert_food(meal_dict, Head(foods)), Tail(foods))

convert_to_daily_meal_lists(foods) == convert_foods(EmptyMealDict, foods)

NoConversion == [foods |-> <<>>, meal_data |-> EmptyMealDict]

InitConvert ==
    /\ store = [session_id \in SessionIds |-> Absent]
    /\ store0 = store
    /\ pc = [c \in Calls |-> "idle"]
    /\ req = [c \in Calls |-> NoRequest]
    /\ session_state = [c \in Calls |-> initial_state]
    /\ inflight = [c \in Calls |-> NoConversion]
    /\ events = [c \in Calls |-> <<>>]
    /\ sse = [c \in Calls |-> <<>>]
    /\ hist = [c \in Calls |-> NoHist]
    /\ ncalls = 0
    /\ now = 0

ConvertToDailyMealData(c) ==
    /\ pc[c] = "idle"
    /\ ncalls < MaxCalls
    /\ \E foods \in UNION {[1..n -> FoodSearchResultItems] : n \in 0..MaxSearchFoods} :
          inflight' = [inflight EXCEPT ![c] =
              [foods |-> foods, meal_data |-> convert_to_daily_meal_lists(foods)]]
    /\ req' = [req EXCEPT ![c] = [op |-> "_convert_to_daily_meal_data",
                                  session_id |-> "", user_message |-> ""]]
    /\ pc' = [pc EXCEPT ![c] = "done"]
    /\ ncalls' = ncalls + 1
    /\ UNCHANGED <<now, store, store0, session_state, events, sse, hist>>

\* the caller takes the DailyMealData
ConvertReturn(c) ==
    /\ pc[c] = "done"
    /\ pc' = [pc EXCEPT ![c] = "idle"]
    /\ req' = [req EXCEPT ![c] = NoRequest]
    /\ inflight' = [inflight EXCEPT ![c] = NoConversion]
    /\ UNCHANGED <<now, store, store0, session_state, events, sse, hist, ncalls>>

NextConvert ==
    \E c \in Handlers :
        \/ ConvertToDailyMealData(c)
        \/ ConvertReturn(c)

SpecConvert == InitConvert /\ [][NextConvert]_vars

ConvertDone(c) == pc[c] = "done" /\ req[c].op = "_convert_to_daily_meal_data"

\* the list the claim assigns to a food
ListNamed(food_item) ==
    CASE food_item.meal_type = "breakfast" -> "Breakfast"
      [] food_item.meal_type = "lunch" -> "Lunch"
      [] food_item.meal_type = "dinner" -> "Dinner"
      [] OTHER -> "Snack"

\* the positions of the foods the claim assigns to a list, in input order
PositionsFor(foods, meal_key) ==
    {i \in DOMAIN foods : ListNamed(foods[i]) = meal_key}

\* C37: _convert_to_daily_meal_data places every food of the search result
\* in exactly one of Breakfast, Lunch, Dinner and Snack, the list named by
\* its meal type or Snack when it has none; no food is dropped or
\* duplicated, and each list holds its foods in input order.
C37_EveryFoodInItsMealList ==
    \A c \in Calls :
        ConvertDone(c)
        => LET foods == inflight[c].foods
               meal_data == inflight[c].meal_data
           IN  /\ DOMAIN meal_data = {"Breakfast", "Lunch", "Dinner", "Snack"}
               /\ \A meal_key \in DOMAIN meal_data :
                     LET positions == PositionsFor(foods, meal_key)
                     IN  /\ Len(meal_data[meal_key]) = Cardinality(positions)
                         /\ \A k \in DOMAIN meal_data[meal_key] :
                               \E i \in positions :
                                  /\ Cardinality({j \in positions : j < i}) = k - 1
                                  /\ meal_data[meal_key][k].name = foods[i].name
                                  /\ meal_data[meal_key][k].serving_size
                                        = foods[i].portion_grams

\* three foods, two of them for the same meal and one without a meal type
C37_Witness ==
    \E c \in Calls :
        /\ ConvertDone(c)
        /\ Len(inflight[c].foods) = 3
        /\ inflight[c].foods[1].meal_type = "lunch"
        /\ inflight[c].foods[2].meal_type = None
        /\ inflight[c].foods[3].meal_type = "lunch"
        /\ inflight[c].foods[1].name # inflight[c].foods[3].name
        /\ Len(inflight[c].meal_data["Lunch"]) = 2
        /\ Len(inflight[c].meal_data["Snack"]) = 1


\* C38: a persisted session whose stage is INITIAL has no extracted foods,
\* no pending clarifications, no clarification responses, no advice and
\* no user message; get_or_create_session, reset_session and a new
\* tracking request on an advised session never persist INITIAL together
\* with data of an earlier cycle.
C38_PersistedInitialIsFresh ==
    \A session_id \in SessionIds :
        (store[session_id] # Absent
            /\ JsonLoads(store[session_id]).current_state = INITIAL)
        => LET state == JsonLoads(store[session_id])
           IN  /\ state.extracted_foods = <<>>
               /\ state.pending_clarifications = <<>>
               /\ state.clarification_responses = EmptyDict
               /\ state.advisor_recommendations = None
               /\ state.user_message = None

\* a session that was advised at the start is persisted with stage INITIAL
C38_Witness ==
    \E session_id \in SessionIds :
        /\ store0[session_id] # Absent
        /\ JsonLoads(store0[session_id]).current_state = ADVISED
        /\ store[session_id] # Absent
        /\ JsonLoads(store[session_id]).current_state = INITIAL
        /\ ncalls = MaxCalls


\* ---------------------------------------------------------------------
\* Requests on different sessions, interleaved at every await
\* ---------------------------------------------------------------------

\* SessionRepository.delete_session called while other requests run
DeleteCall(c) ==
    /\ pc[c] = "idle"
    /\ ncalls < MaxCalls
    /\ \E session_id \in SessionIds, commit_ok \in BOOLEAN :
          LET deleted == delete_session(store, session_id, commit_ok)
          IN  /\ store' = deleted.table
              /\ req' = [req EXCEPT ![c] = [op |-> "delete_session",
                                            session_id |-> session_id,
                                            user_message |-> ""]]
              /\ hist' = [hist EXCEPT ![c] =
                    [NoHist EXCEPT !.before = store[session_id],
                                   !.loaded = store[session_id],
                                   !.failed = IF deleted.ok THEN "none" ELSE "delete",
                                   !.at_end = deleted.table[session_id]]]
    /\ pc' = [pc EXCEPT ![c] = "done"]
    /\ ncalls' = ncalls + 1
    /\ UNCHANGED <<now, store0, session_state, inflight, events, sse>>

NextFrame ==
    \/ NextConc
    \/ \E c \in Calls : Reset(c)
    \/ \E c \in Calls : DeleteCall(c)

SpecFrame == Init /\ [][NextFrame]_vars

\* the row the call itself has left so far: what it last wrote, or what it
\* found when it has not written
OwnRow(c) ==
    IF req[c].op = "process_user_input_stream"
    THEN IF hist[c].writes = <<>> THEN hist[c].before
         ELSE hist[c].writes[Len(hist[c].writes)]
    ELSE hist[c].at_end

\* the calls that have been made on a session
CallsOn(session_id) == {c \in Calls : req[c].session_id = session_id}

\* C39: an operation on one session id (a request, get_or_create_session,
\* a save, a reset, a delete) leaves the row of every other session id as
\* it is: however the calls on different sessions interleave, a session
\* without calls keeps the row it started with, and a session with one
\* call holds the row that call itself has left.
C39_OtherSessionsUnchanged ==
    \A session_id \in SessionIds :
        /\ CallsOn(session_id) = {} => store[session_id] = store0[session_id]
        /\ \A c \in CallsOn(session_id) :
              CallsOn(session_id) = {c} => store[session_id] = OwnRow(c)

\* two calls on different sessions, one a request that wrote its row while
\* the other reset or deleted its own
C39_Witness ==
    \E c, d \in Calls :
        /\ req[c].op = "process_user_input_stream"
        /\ req[d].op \in {"reset_session", "delete_session"}
        /\ req[d].session_id \in SessionIds \ {req[c].session_id}
        /\ store[req[d].session_id] # store0[req[d].session_id]
        /\ pc[c] = "done"
        /\ Len(hist[c].writes) > 0
        /\ store0[req[c].session_id] # Absent

====
